---- MODULE Spec2Model ----
(***************************************************************************)
(* Model of the path-addressed value tree of config-rs: the path evaluator *)
(* (src/path/mod.rs: abs_index, Expression::get, get_mut_forcibly, set),   *)
(* the deep merge it performs, and the builder's layer order.              *)
(***************************************************************************)
EXTENDS Integers, Sequences, FiniteSets, TLC

(***************************************************************************)
(* Bounds of the model.                                                    *)
(***************************************************************************)
\* arrays of the drawn values have at most MaxLen elements
MaxLen == 2
\* subscripts of the drawn path expressions are -MaxIndex..MaxIndex
MaxIndex == 3
\* a builder registers at most MaxSources sources
MaxSources == 2

\* table keys of the drawn values and path expressions
Keys == {"a", "b"}

(***************************************************************************)
(* Value and ValueKind.  A value is modelled by its kind; a Table holds a  *)
(* function from its keys to values, an Array a sequence of values (the    *)
(* element the code addresses as array[i] is array[i + 1] here).           *)
(***************************************************************************)
Nil == [kind |-> "Nil"]

I64(n) == [kind |-> "I64", i |-> n]

Table(m) == [kind |-> "Table", map |-> m]

Array(s) == [kind |-> "Array", array |-> s]

\* Map::new()
EmptyMap == [k \in {} |-> Nil]

\* Option::None of Option<&Value>; Some(v) is v itself
None == [kind |-> "None"]

IsTable(v) == v.kind = "Table"

IsArray(v) == v.kind = "Array"

\* map.insert(key, value) and *map.get_mut(key) = value
MapInsert(m, key, value) ==
    [k \in (DOMAIN m) \cup {key} |-> IF k = key THEN value ELSE m[k]]

\* map.entry(key).or_insert_with(|| dflt)
MapEntryOrInsert(m, key, dflt) ==
    IF key \in DOMAIN m THEN m ELSE MapInsert(m, key, dflt)

\* map.get(key)
MapGet(m, key) == IF key \in DOMAIN m THEN m[key] ELSE None

\* ArrayGet with a plausible slip: an index past the end reads the last
\* element
ArrayGetClamped(s, index) ==
    IF s = <<>> THEN None
    ELSE IF index < Len(s) THEN s[index + 1] ELSE s[Len(s)]

\* array.get(index), index counted from 0
ArrayGet(s, index) == IF index < Len(s) THEN s[index + 1] ELSE None

\* n copies of Nil
NilSeq(n) == [j \in 1..n |-> Nil]

\* array.resize(newlen, Nil) when newlen > array.len()
ArrayResize(s, newlen) ==
    [j \in 1..newlen |-> IF j <= Len(s) THEN s[j] ELSE Nil]

\* array.splice(0..0, n copies of Nil)
ArraySplice(s, n) == NilSeq(n) \o s

\* array[index] = value, index counted from 0
ArrayStore(s, index, value) == [s EXCEPT ![index + 1] = value]

(***************************************************************************)
(* Expression                                                              *)
(***************************************************************************)
Identifier(id) == [tag |-> "Identifier", id |-> id]

Child(expr, key) == [tag |-> "Child", expr |-> expr, key |-> key]

Subscript(expr, index) == [tag |-> "Subscript", expr |-> expr, index |-> index]

(***************************************************************************)
(* abs_index: a relative index into an absolute one.  Ok(i) for an index   *)
(* that is not negative or reaches no further back than the first element, *)
(* Err(n) with the number n of missing leading elements otherwise.         *)
(***************************************************************************)
unsigned_abs(i) == IF i < 0 THEN 0 - i ELSE i

\* abs_index with a plausible slip: > for >=, so that the index -len does
\* not reach the first element
abs_indexStrict(index, len) ==
    IF index >= 0
    THEN [ok |-> TRUE, val |-> index]
    ELSE IF len > unsigned_abs(index)
         THEN [ok |-> TRUE, val |-> len - unsigned_abs(index)]
         ELSE [ok |-> FALSE, val |-> unsigned_abs(len + index)]

abs_index(index, len) ==
    IF index >= 0
    THEN [ok |-> TRUE, val |-> index]
    ELSE IF len >= unsigned_abs(index)
         THEN [ok |-> TRUE, val |-> len - unsigned_abs(index)]
         ELSE [ok |-> FALSE, val |-> unsigned_abs(len + index)]

(***************************************************************************)
(* Expression::get                                                         *)
(***************************************************************************)
RECURSIVE get(_, _)
get(self, root) ==
    CASE self.tag = "Identifier" ->
            IF IsTable(root) THEN MapGet(root.map, self.id) ELSE None
      [] self.tag = "Child" ->
            LET value == get(self.expr, root) IN
            IF value = None THEN None
            ELSE IF IsTable(value) THEN MapGet(value.map, self.key) ELSE None
      [] self.tag = "Subscript" ->
            LET value == get(self.expr, root) IN
            IF value = None THEN None
            ELSE IF IsArray(value)
                 THEN LET index == abs_index(self.index, Len(value.array)) IN
                      IF index.ok THEN ArrayGet(value.array, index.val) ELSE None
                 ELSE None

(***************************************************************************)
(* A &mut Value into the tree is modelled by the place it points to: the   *)
(* sequence of keys and absolute indices leading from the root to it.      *)
(***************************************************************************)
KeyStep(key) == [key |-> key]

IndexStep(index) == [index |-> index]

IsKeyStep(step) == "key" \in DOMAIN step

\* *place: the value a reference points to
RECURSIVE Deref(_, _)
Deref(root, place) ==
    IF place = <<>> THEN root
    ELSE LET step == Head(place) IN
         IF IsKeyStep(step)
         THEN Deref(root.map[step.key], Tail(place))
         ELSE Deref(root.array[step.index + 1], Tail(place))

\* *place = value: the tree after a store through a reference
RECURSIVE Store(_, _, _)
Store(root, place, value) ==
    IF place = <<>> THEN value
    ELSE LET step == Head(place) IN
         IF IsKeyStep(step)
         THEN Table([root.map EXCEPT
                        ![step.key] = Store(root.map[step.key], Tail(place), value)])
         ELSE Array([root.array EXCEPT
                        ![step.index + 1] =
                            Store(root.array[step.index + 1], Tail(place), value)])

\* SubscriptSlot with a plausible slip: one Nil too many is put in front
SubscriptSlotExtraPad(array, index) ==
    LET r == abs_index(index, Len(array)) IN
    IF r.ok
    THEN [array |-> IF r.val >= Len(array) THEN ArrayResize(array, r.val + 1)
                    ELSE array,
          uindex |-> r.val]
    ELSE [array |-> ArraySplice(array, r.val + 1), uindex |-> 0]

\* the array of a Subscript step made ready for position index, and that
\* position: grown with Nil at the end, or padded with Nil at the front
SubscriptSlot(array, index) ==
    LET r == abs_index(index, Len(array)) IN
    IF r.ok
    THEN [array |-> IF r.val >= Len(array) THEN ArrayResize(array, r.val + 1)
                    ELSE array,
          uindex |-> r.val]
    ELSE [array |-> ArraySplice(array, r.val), uindex |-> 0]

(***************************************************************************)
(* Expression::get_mut_forcibly: the tree after the call and the place of  *)
(* the returned reference, [some |-> FALSE] for None.                      *)
(***************************************************************************)
RECURSIVE get_mut_forcibly(_, _)
get_mut_forcibly(self, root) ==
    CASE self.tag = "Identifier" ->
            IF IsTable(root)
            THEN [some |-> TRUE,
                  root |-> Table(MapEntryOrInsert(root.map, self.id, Nil)),
                  place |-> <<KeyStep(self.id)>>]
            ELSE [some |-> FALSE, root |-> root, place |-> <<>>]
      [] self.tag = "Child" ->
            LET r == get_mut_forcibly(self.expr, root) IN
            IF r.some
            THEN LET value == Deref(r.root, r.place)
                     map == IF IsTable(value) THEN value.map ELSE EmptyMap
                 IN  [some |-> TRUE,
                      root |-> Store(r.root, r.place,
                                     Table(MapEntryOrInsert(map, self.key, Nil))),
                      place |-> Append(r.place, KeyStep(self.key))]
            ELSE r
      [] self.tag = "Subscript" ->
            LET r == get_mut_forcibly(self.expr, root) IN
            IF r.some
            THEN LET value == Deref(r.root, r.place)
                     array == IF IsArray(value) THEN value.array ELSE <<>>
                     slot == SubscriptSlot(array, self.index)
                 IN  [some |-> TRUE,
                      root |-> Store(r.root, r.place, Array(slot.array)),
                      place |-> Append(r.place, IndexStep(slot.uindex))]
            ELSE r

(***************************************************************************)
(* Expression::set: the tree after the call.                               *)
(***************************************************************************)
RECURSIVE set(_, _, _)
RECURSIVE SetEntries(_, _, _)

\* SetEntries with a plausible slip: the loop ends after its first entry
SetEntriesFirstOnly(target, incoming_map, keys) ==
    IF keys = {} THEN target
    ELSE LET key == CHOOSE k \in keys : TRUE IN
         set(Identifier(key), target, incoming_map[key])

\* for (key, val) in incoming_map { Identifier(key).set(target, val) }
\* over the entries not yet visited; the entries have distinct keys, so the
\* order of the visit does not show in the result
SetEntries(target, incoming_map, keys) ==
    IF keys = {} THEN target
    ELSE LET key == CHOOSE k \in keys : TRUE IN
         SetEntries(set(Identifier(key), target, incoming_map[key]),
                    incoming_map, keys \ {key})

\* SetIdentifier with a plausible slip: a value already at the key is kept
SetIdentifierKeepsExisting(id, root, value) ==
    LET map == IF IsTable(root) THEN root.map ELSE EmptyMap IN
    IF IsTable(value)
    THEN LET target == MapGet(MapEntryOrInsert(map, id, Table(EmptyMap)), id) IN
         Table(MapInsert(map, id,
                         SetEntries(target, value.map, DOMAIN value.map)))
    ELSE Table(MapEntryOrInsert(map, id, value))

\* SetIdentifier with a plausible slip: an incoming table is stored as it
\* is, not merged
SetIdentifierOverwrite(id, root, value) ==
    LET map == IF IsTable(root) THEN root.map ELSE EmptyMap IN
    Table(MapInsert(map, id, value))

\* SetIdentifier with a plausible slip: an incoming array is merged by index
\* into an array already at the key
SetIdentifierArrayMerge(id, root, value) ==
    LET map == IF IsTable(root) THEN root.map ELSE EmptyMap IN
    IF IsTable(value)
    THEN LET target == MapGet(MapEntryOrInsert(map, id, Table(EmptyMap)), id) IN
         Table(MapInsert(map, id,
                         SetEntries(target, value.map, DOMAIN value.map)))
    ELSE IF IsArray(value) /\ id \in DOMAIN map /\ IsArray(map[id])
         THEN LET old == map[id].array
                  new == value.array
                  n == IF Len(old) > Len(new) THEN Len(old) ELSE Len(new)
              IN  Table(MapInsert(map, id,
                      Array([j \in 1..n |-> IF j <= Len(new) THEN new[j]
                                            ELSE old[j]])))
         ELSE Table(MapInsert(map, id, value))

\* SetIdentifier with a plausible slip: an incoming empty table replaces
\* what is at the key
SetIdentifierEmptyReplaces(id, root, value) ==
    LET map == IF IsTable(root) THEN root.map ELSE EmptyMap IN
    IF IsTable(value) /\ value.map # EmptyMap
    THEN LET target == MapGet(MapEntryOrInsert(map, id, Table(EmptyMap)), id) IN
         Table(MapInsert(map, id,
                         SetEntries(target, value.map, DOMAIN value.map)))
    ELSE Table(MapInsert(map, id, value))

\* SetIdentifier with a plausible slip: a value that is no table is put in
\* a table of its own, without the other entries of the root
SetIdentifierFreshTable(id, root, value) ==
    LET map == IF IsTable(root) THEN root.map ELSE EmptyMap IN
    IF IsTable(value)
    THEN LET target == MapGet(MapEntryOrInsert(map, id, Table(EmptyMap)), id) IN
         Table(MapInsert(map, id,
                         SetEntries(target, value.map, DOMAIN value.map)))
    ELSE Table(MapInsert(EmptyMap, id, value))

\* the Identifier arm of set
SetIdentifier(id, root, value) ==
    LET map == IF IsTable(root) THEN root.map ELSE EmptyMap IN
    IF IsTable(value)
    THEN LET target == MapGet(MapEntryOrInsert(map, id, Table(EmptyMap)), id) IN
         Table(MapInsert(map, id,
                         SetEntries(target, value.map, DOMAIN value.map)))
    ELSE Table(MapInsert(map, id, value))

\* SetChild with a plausible slip: a parent that is neither a table nor Nil
\* is left as it is
SetChildKeepsScalar(expr, key, root, value) ==
    LET r == get_mut_forcibly(expr, root) IN
    IF r.some
    THEN LET found == Deref(r.root, r.place) IN
         IF IsTable(found) \/ found = Nil
         THEN LET parent == IF IsTable(found) THEN found ELSE Table(EmptyMap)
              IN  Store(r.root, r.place, SetIdentifier(key, parent, value))
         ELSE r.root
    ELSE root

\* the Child arm of set
SetChild(expr, key, root, value) ==
    LET r == get_mut_forcibly(expr, root) IN
    IF r.some
    THEN LET found == Deref(r.root, r.place)
             parent == IF IsTable(found) THEN found ELSE Table(EmptyMap)
         IN  Store(r.root, r.place, SetIdentifier(key, parent, value))
    ELSE root

\* SetSubscript with a plausible slip: the array grows by copies of the
\* value, not by Nil
SetSubscriptFillsValue(expr, index, root, value) ==
    LET r == get_mut_forcibly(expr, root) IN
    IF r.some
    THEN LET found == Deref(r.root, r.place)
             array == IF IsArray(found) THEN found.array ELSE <<>>
             slot == SubscriptSlot(array, index)
         IN  Store(r.root, r.place,
                   Array([j \in 1..Len(slot.array) |->
                             IF j > Len(array) /\ index >= 0 THEN value
                             ELSE IF j = slot.uindex + 1 THEN value
                             ELSE slot.array[j]]))
    ELSE root

\* the Subscript arm of set
SetSubscript(expr, index, root, value) ==
    LET r == get_mut_forcibly(expr, root) IN
    IF r.some
    THEN LET found == Deref(r.root, r.place)
             array == IF IsArray(found) THEN found.array ELSE <<>>
             slot == SubscriptSlot(array, index)
         IN  Store(r.root, r.place,
                   Array(ArrayStore(slot.array, slot.uindex, value)))
    ELSE root

set(self, root, value) ==
    CASE self.tag = "Identifier" -> SetIdentifier(self.id, root, value)
      [] self.tag = "Child" -> SetChild(self.expr, self.key, root, value)
      [] self.tag = "Subscript" -> SetSubscript(self.expr, self.index, root, value)

(***************************************************************************)
(* The unreachable!() branches of get_mut_forcibly and set: whether a call *)
(* runs into one of them.  Each stands behind a second match on a value    *)
(* that was just made a table or an array where it was none.               *)
(***************************************************************************)
\* the value after `*value = Map::<String, Value>::new().into()` where it
\* is no table
CoerceToTable(value) == IF IsTable(value) THEN value ELSE Table(EmptyMap)

\* the value after `*value = Vec::<Value>::new().into()` where it is no
\* array
CoerceToArray(value) == IF IsArray(value) THEN value ELSE Array(<<>>)

\* get_mut_forcibly reaches the unreachable!() of its Child arm or of its
\* Subscript arm, in this call or in the calls it makes for the
\* expressions within
RECURSIVE get_mut_forcibly_unreachable(_, _)
get_mut_forcibly_unreachable(self, root) ==
    IF self.tag = "Identifier" THEN FALSE
    ELSE \/ get_mut_forcibly_unreachable(self.expr, root)
         \/ LET r == get_mut_forcibly(self.expr, root) IN
            /\ r.some
            /\ LET value == Deref(r.root, r.place) IN
               IF self.tag = "Child"
               THEN ~IsTable(Deref(Store(r.root, r.place, CoerceToTable(value)),
                                   r.place))
               ELSE ~IsArray(Deref(Store(r.root, r.place, CoerceToArray(value)),
                                   r.place))

\* set reaches the unreachable!() of its Identifier arm, or one of
\* get_mut_forcibly, in this call or in the calls it makes for the entries
\* of an incoming table, whatever the order in which the map gives them
RECURSIVE set_unreachable(_, _, _)
set_unreachable(self, root, value) ==
    IF self.tag = "Identifier"
    THEN LET table == CoerceToTable(root) IN
         /\ IsTable(value)
         /\ \/ ~IsTable(table)
            \/ LET target == MapGet(MapEntryOrInsert(table.map, self.id,
                                                     Table(EmptyMap)), self.id)
               IN  \E key \in DOMAIN value.map :
                   \E visited \in SUBSET ((DOMAIN value.map) \ {key}) :
                       set_unreachable(Identifier(key),
                                       SetEntries(target, value.map, visited),
                                       value.map[key])
    ELSE \/ get_mut_forcibly_unreachable(self.expr, root)
         \/ LET r == get_mut_forcibly(self.expr, root) IN
            /\ r.some
            /\ self.tag = "Child"
            /\ set_unreachable(Identifier(self.key),
                               CoerceToTable(Deref(r.root, r.place)), value)

(***************************************************************************)
(* The fold of a collected table into the running tree: every entry is set *)
(* at its key (Source::collect_to; the keys drawn here are identifiers).   *)
(***************************************************************************)
Merge(cache, table) == SetEntries(cache, table.map, DOMAIN table.map)

(***************************************************************************)
(* The values the specifications draw their inputs from.                   *)
(***************************************************************************)
\* every map from a subset of the keys ks to the values vs
Maps(ks, vs) == UNION {[d -> vs] : d \in SUBSET ks}

\* every table over the keys ks with values in vs
Tables(ks, vs) == {Table(m) : m \in Maps(ks, vs)}

\* every array of at most n elements of vs
Arrays(n, vs) == {Array(s) : s \in UNION {[1..l -> vs] : l \in 0..n}}

\* the one-entry table {key: value}
Single(key, value) == Table(MapInsert(EmptyMap, key, value))

ArrShort == Array(<<I64(2)>>)

ArrLong == Array([j \in 1..MaxLen |-> I64(j)])

\* the values of the merged tables: an integer, two arrays of different
\* lengths, the empty table and three tables of one entry
MergeValues ==
    {I64(1), ArrShort, ArrLong, Table(EmptyMap), Single("a", I64(2)),
     Single("a", Table(EmptyMap)), Single("b", I64(1))}

MergeTables == Tables(Keys, MergeValues)

\* the values a builder call or a source gives a key
BuilderValues == {I64(1), I64(2)}

\* the tables the sources of a builder collect
SourceTables == Tables(Keys, BuilderValues)

\* the elements of the arrays in the roots of the path evaluator
PathElems == {Nil, I64(1), Single("a", I64(1))}

\* the values under key "a" of those roots
PathValues ==
    Arrays(MaxLen, PathElems)
        \cup {I64(1), Table(EmptyMap), Single("a", I64(1)),
              Single("b", Array(<<I64(1)>>))}

\* the roots the library hands the evaluator, which are tables: any of
\* PathValues or nothing under "a", and an integer or nothing under "b"
PathRoots ==
    {Table(m) : m \in Maps({"a"}, PathValues)}
        \cup {Table(MapInsert(m, "b", I64(2))) : m \in Maps({"a"}, PathValues)}

\* those roots and roots that are not tables
AnyRoots == PathRoots \cup {Nil, I64(1), Array(<<I64(1)>>)}

\* the values set
SetValues ==
    {Nil, I64(2), ArrShort, Table(EmptyMap), Single("b", I64(2)),
     Single("a", Table(EmptyMap))}

\* the path expressions of one, two and three steps
Indices == (0 - MaxIndex)..MaxIndex

Postfix(es) ==
    {Child(e, k) : e \in es, k \in Keys}
        \cup {Subscript(e, i) : e \in es, i \in Indices}

Exprs1 == {Identifier(k) : k \in Keys}

Exprs2 == Postfix(Exprs1)

Exprs3 == Postfix(Exprs2)

Exprs == Exprs1 \cup Exprs2 \cup Exprs3

VARIABLES
    \* SpecMerge: the three tables, the merges made of them, the next step
    A, B, C, AB, AB_C, BC, A_BC, mpc,
    \* Spec: the builder's layers and registered sources, whether it was
    \* built, the configuration built, and two facts about the order of the
    \* calls: a source was added after an override was set, a default was
    \* set after a source was added
    defaults, overrides, sources, bpc, config, overrideFirst, defaultLate,
    \* SpecPath: the tree, the last call (its name, expression and value),
    \* the tree before it and what it returned
    root, ppc, expr, val, pre, res,
    \* SpecBuild: the registered sources, the running tree of a build that
    \* is under way, the position of the build in its order of collection,
    \* the number of times it was polled while a source was pending, the
    \* sources whose collection began and those merged, in that order, what
    \* build returned, and the step the builder is at
    registered, buildCache, cursor, polls, started, merged, built, xpc,
    \* SpecParse: the text of a path, what from_str made of it, and whether
    \* it was parsed
    input, parsed, rpc,
    \* SpecEnv: the Environment source, the variables it reads, those not
    \* yet visited, the table collected so far, what collect returned, and
    \* the step collect is at
    environment, envVars, envLeft, envTable, collected, epc,
    \* SpecFind: the formats registered with their extensions, the names of
    \* the files on disk, the name and the format given to the file source,
    \* what find_file returned, and whether it ran
    registry, disk, fileName, formatHint, located, fpc,
    \* SpecWatch: the configuration in the shared holder, the state of its
    \* lock, the settings file on disk, the configuration refresh has
    \* loaded, the steps the main thread and the reader are at, the clone
    \* each of them is making, the configurations shown, the number of
    \* changes of the file so far and the events not yet received
    holder, rwlock, settingsToml, loaded, wpc, readerPc, reading, shown,
    changes, events,
    \* SpecExpand: the text, the variables of the process, the text
    \* expanded, and whether expand_env_vars ran
    template, processEnv, expanded, vpc

mergeVars == <<A, B, C, AB, AB_C, BC, A_BC, mpc>>

builderVars ==
    <<defaults, overrides, sources, bpc, config, overrideFirst, defaultLate>>

pathVars == <<root, ppc, expr, val, pre, res>>

buildVars ==
    <<registered, buildCache, cursor, polls, started, merged, built, xpc>>

parseVars == <<input, parsed, rpc>>

envStateVars == <<environment, envVars, envLeft, envTable, collected, epc>>

fileVars == <<registry, disk, fileName, formatHint, located, fpc>>

watchVars ==
    <<holder, rwlock, settingsToml, loaded, wpc, readerPc, reading, shown,
      changes, events>>

expandVars == <<template, processEnv, expanded, vpc>>

sideVars == <<fileVars, watchVars, expandVars>>

vars ==
    <<mergeVars, builderVars, pathVars, buildVars, parseVars, envStateVars,
      sideVars>>

\* the variables of a specification that is not running
MergeIdle ==
    /\ A = None /\ B = None /\ C = None
    /\ AB = None /\ AB_C = None /\ BC = None /\ A_BC = None
    /\ mpc = "off"

BuilderIdle ==
    /\ defaults = None /\ overrides = None /\ sources = <<>>
    /\ bpc = "off" /\ config = None
    /\ overrideFirst = FALSE /\ defaultLate = FALSE

PathIdle ==
    /\ root = None /\ ppc = "off" /\ expr = None /\ val = None
    /\ pre = None /\ res = None

BuildIdle ==
    /\ registered = <<>> /\ buildCache = None /\ cursor = 0 /\ polls = 0
    /\ started = <<>> /\ merged = <<>> /\ built = None /\ xpc = "off"

ParseIdle == input = <<>> /\ parsed = None /\ rpc = "off"

EnvIdle ==
    /\ environment = None /\ envVars = {} /\ envLeft = {}
    /\ envTable = None /\ collected = None /\ epc = "off"

FileIdle ==
    /\ registry = None /\ disk = {} /\ fileName = None
    /\ formatHint = None /\ located = None /\ fpc = "off"

WatchIdle ==
    /\ holder = None /\ rwlock = None /\ settingsToml = None
    /\ loaded = None /\ wpc = "off" /\ readerPc = "off"
    /\ reading = None /\ shown = {} /\ changes = 0 /\ events = 0

ExpandIdle ==
    /\ template = <<>> /\ processEnv = None /\ expanded = None /\ vpc = "off"

SideIdle == FileIdle /\ WatchIdle /\ ExpandIdle

(***************************************************************************)
(* SpecMerge: three tables are drawn; B is merged into A and C into the    *)
(* result, then C into B and that result into A.                           *)
(***************************************************************************)
MergeInit ==
    /\ A \in MergeTables
    /\ B \in MergeTables
    /\ C \in MergeTables
    /\ AB = None /\ AB_C = None /\ BC = None /\ A_BC = None
    /\ mpc = "left1"
    /\ BuilderIdle
    /\ PathIdle
    /\ BuildIdle
    /\ EnvIdle
    /\ ParseIdle
    /\ EnvIdle
    /\ SideIdle

MergeLeftFirst ==
    /\ mpc = "left1"
    /\ AB' = Merge(A, B)
    /\ mpc' = "left2"
    /\ UNCHANGED <<A, B, C, AB_C, BC, A_BC, builderVars, pathVars, buildVars, parseVars, envStateVars, sideVars>>

MergeLeftSecond ==
    /\ mpc = "left2"
    /\ AB_C' = Merge(AB, C)
    /\ mpc' = "right1"
    /\ UNCHANGED <<A, B, C, AB, BC, A_BC, builderVars, pathVars, buildVars, parseVars, envStateVars, sideVars>>

MergeRightFirst ==
    /\ mpc = "right1"
    /\ BC' = Merge(B, C)
    /\ mpc' = "right2"
    /\ UNCHANGED <<A, B, C, AB, AB_C, A_BC, builderVars, pathVars, buildVars, parseVars, envStateVars, sideVars>>

MergeRightSecond ==
    /\ mpc = "right2"
    /\ A_BC' = Merge(A, BC)
    /\ mpc' = "done"
    /\ UNCHANGED <<A, B, C, AB, AB_C, BC, builderVars, pathVars, buildVars, parseVars, envStateVars, sideVars>>

MergeNext ==
    \/ MergeLeftFirst
    \/ MergeLeftSecond
    \/ MergeRightFirst
    \/ MergeRightSecond

SpecMerge == MergeInit /\ [][MergeNext]_vars

(***************************************************************************)
(* Spec: the builder.  set_default and set_override set a value at a key   *)
(* of the defaults and the overrides layer, add_source registers a source, *)
(* and build folds the layers: the defaults, then every source in the      *)
(* order of registration, then the overrides.                              *)
(***************************************************************************)
RECURSIVE MergeAll(_, _)
MergeAll(cache, tables) ==
    IF tables = <<>> THEN cache
    ELSE MergeAll(Merge(cache, Head(tables)), Tail(tables))

Build(dflt, srcs, ovr) == Merge(MergeAll(Merge(Table(EmptyMap), dflt), srcs), ovr)

Init ==
    /\ defaults = Table(EmptyMap)
    /\ overrides = Table(EmptyMap)
    /\ sources = <<>>
    /\ bpc = "open"
    /\ config = None
    /\ overrideFirst = FALSE
    /\ defaultLate = FALSE
    /\ MergeIdle
    /\ PathIdle
    /\ BuildIdle
    /\ EnvIdle
    /\ ParseIdle
    /\ EnvIdle
    /\ SideIdle

\* builder.set_default(key, value)
set_default ==
    /\ bpc = "open"
    /\ \E key \in Keys, value \in BuilderValues :
          defaults' = set(Identifier(key), defaults, value)
    /\ defaultLate' = (defaultLate \/ sources # <<>>)
    /\ UNCHANGED <<overrides, sources, bpc, config, overrideFirst>>
    /\ UNCHANGED <<mergeVars, pathVars, buildVars, parseVars,
                   envStateVars, sideVars>>

\* builder.set_override(key, value)
set_override ==
    /\ bpc = "open"
    /\ \E key \in Keys, value \in BuilderValues :
          overrides' = set(Identifier(key), overrides, value)
    /\ UNCHANGED <<defaults, sources, bpc, config, overrideFirst, defaultLate>>
    /\ UNCHANGED <<mergeVars, pathVars, buildVars, parseVars,
                   envStateVars, sideVars>>

\* builder.add_source(source), the source collecting table
add_source ==
    /\ bpc = "open"
    /\ Len(sources) < MaxSources
    /\ \E table \in SourceTables : sources' = Append(sources, table)
    /\ overrideFirst' = (overrideFirst \/ overrides # Table(EmptyMap))
    /\ UNCHANGED <<defaults, overrides, bpc, config, defaultLate>>
    /\ UNCHANGED <<mergeVars, pathVars, buildVars, parseVars,
                   envStateVars, sideVars>>

\* builder.build()
build ==
    /\ bpc = "open"
    /\ config' = Build(defaults, sources, overrides)
    /\ bpc' = "built"
    /\ UNCHANGED <<defaults, overrides, sources, overrideFirst, defaultLate>>
    /\ UNCHANGED <<mergeVars, pathVars, buildVars, parseVars,
                   envStateVars, sideVars>>

Next ==
    \/ set_default
    \/ set_override
    \/ add_source
    \/ build

Spec == Init /\ [][Next]_vars

(***************************************************************************)
(* SpecPath: a root is drawn; a path expression is read with get, forced   *)
(* with get_mut_forcibly, or set and then read back.  SpecPathAny is the   *)
(* same with the roots that are not tables among those drawn.              *)
(***************************************************************************)
PathInit ==
    /\ root \in PathRoots
    /\ ppc = "idle"
    /\ expr = None /\ val = None /\ pre = None /\ res = None
    /\ MergeIdle
    /\ BuilderIdle
    /\ BuildIdle
    /\ ParseIdle
    /\ EnvIdle
    /\ SideIdle

PathInitAny ==
    /\ root \in AnyRoots
    /\ ppc = "idle"
    /\ expr = None /\ val = None /\ pre = None /\ res = None
    /\ MergeIdle
    /\ BuilderIdle
    /\ BuildIdle
    /\ ParseIdle
    /\ EnvIdle
    /\ SideIdle

\* expression.get(&root)
DoGet ==
    /\ ppc = "idle"
    /\ \E e \in Exprs :
          /\ res' = get(e, root)
          /\ expr' = e
    /\ pre' = root
    /\ ppc' = "got"
    /\ UNCHANGED <<root, val, mergeVars, builderVars, buildVars, parseVars,
                   envStateVars, sideVars>>

\* expression.get_mut_forcibly(&mut root): res is the value the returned
\* reference points to, None when no reference is returned
DoGetMutForcibly ==
    /\ ppc = "idle"
    /\ \E e \in Exprs :
          LET r == get_mut_forcibly(e, root) IN
          /\ root' = r.root
          /\ res' = IF r.some THEN Deref(r.root, r.place) ELSE None
          /\ expr' = e
    /\ pre' = root
    /\ ppc' = "forced"
    /\ UNCHANGED <<val, mergeVars, builderVars, buildVars, parseVars,
                   envStateVars, sideVars>>

\* expression.set(&mut root, value)
DoSet ==
    /\ ppc = "idle"
    /\ \E e \in Exprs, value \in SetValues :
          /\ root' = set(e, root, value)
          /\ expr' = e
          /\ val' = value
    /\ pre' = root
    /\ ppc' = "set"
    /\ UNCHANGED <<res, mergeVars, builderVars, buildVars, parseVars,
                   envStateVars, sideVars>>

\* the get of the expression just set
DoGetBack ==
    /\ ppc = "set"
    /\ res' = get(expr, root)
    /\ ppc' = "back"
    /\ UNCHANGED <<root, expr, val, pre, mergeVars, builderVars, buildVars, parseVars,
                   envStateVars, sideVars>>

PathNext ==
    \/ DoGet
    \/ DoGetMutForcibly
    \/ DoSet
    \/ DoGetBack

SpecPath == PathInit /\ [][PathNext]_vars

SpecPathAny == PathInitAny /\ [][PathNext]_vars

(***************************************************************************)
(* File sources.  A JSON text is modelled by what the JSON parser makes of *)
(* it: a syntax error, no value at all (a text without a value), or a JSON *)
(* value; a file by whether it is found and by its text.                   *)
(***************************************************************************)
JNull == [json |-> "Null"]

JBoolean(b) == [json |-> "Boolean", b |-> b]

JNumber(n) == [json |-> "Number", number |-> n]

JObject(m) == [json |-> "Object", members |-> m]

JArray(s) == [json |-> "Array", elems |-> s]

Boolean(b) == [kind |-> "Boolean", b |-> b]

Malformed == [text |-> "malformed"]

EmptyText == [text |-> "empty"]

JsonText(j) == [text |-> "json", json |-> j]

\* jsonc_parser::parse_to_value(text)
parse_to_value(text) ==
    CASE text.text = "malformed" -> [ok |-> FALSE]
      [] text.text = "empty" -> [ok |-> TRUE, some |-> FALSE]
      [] text.text = "json" -> [ok |-> TRUE, some |-> TRUE, value |-> text.json]

RECURSIVE from_jsonc_value(_)
from_jsonc_value(value) ==
    CASE value.json = "Null" -> Nil
      [] value.json = "Boolean" -> Boolean(value.b)
      [] value.json = "Number" -> I64(value.number)
      [] value.json = "Object" ->
            Table([k \in DOMAIN value.members |->
                      from_jsonc_value(value.members[k])])
      [] value.json = "Array" ->
            Array([j \in 1..Len(value.elems) |->
                      from_jsonc_value(value.elems[j])])

\* format::extract_root_table: the map of a root that is a table, an error
\* naming the kind found for any other root
extract_root_table(value) ==
    IF IsTable(value)
    THEN [ok |-> TRUE, map |-> value.map]
    ELSE [ok |-> FALSE,
          cause |-> [expected |-> "a map", unexpected |-> value.kind]]

\* parse with a plausible slip: a text without a value is read as an empty
\* table
parseEmptyAsTable(text) ==
    LET p == parse_to_value(text) IN
    IF ~p.ok THEN [ok |-> FALSE, cause |-> [syntax |-> "error"]]
    ELSE extract_root_table(IF p.some THEN from_jsonc_value(p.value)
                            ELSE Table(EmptyMap))

\* file::format::jsonc::parse
parse(text) ==
    LET p == parse_to_value(text) IN
    IF ~p.ok THEN [ok |-> FALSE, cause |-> [syntax |-> "error"]]
    ELSE extract_root_table(IF p.some THEN from_jsonc_value(p.value) ELSE Nil)

NotFound == [found |-> FALSE]

Found(text) == [found |-> TRUE, text |-> text]

\* FileSourceFile::resolve: the text of a file that is found
resolve(file) ==
    IF file.found
    THEN [ok |-> TRUE, content |-> file.text]
    ELSE [ok |-> FALSE, cause |-> [notfound |-> "configuration file"]]

\* a required file source, and the asynchronous source of the tests
FileSource(file) == [async |-> FALSE, file |-> file]

AsyncJson(text) == [async |-> TRUE, text |-> text]

\* File::collect: a file that does not resolve is a Foreign error, a text
\* that does not parse to a table a FileParse error
File_collect(source) ==
    LET f == resolve(source.file) IN
    IF ~f.ok THEN [ok |-> FALSE, error |-> [kind |-> "Foreign", cause |-> f.cause]]
    ELSE LET r == parse(f.content) IN
         IF r.ok THEN r
         ELSE [ok |-> FALSE, error |-> [kind |-> "FileParse", cause |-> r.cause]]

\* AsyncJson::collect
AsyncJson_collect(source) ==
    LET r == parse(source.text) IN
    IF r.ok THEN r
    ELSE [ok |-> FALSE, error |-> [kind |-> "Foreign", cause |-> r.cause]]

collect(source) ==
    IF source.async THEN AsyncJson_collect(source) ELSE File_collect(source)

(***************************************************************************)
(* SpecBuild: the build of a builder with file sources and asynchronous    *)
(* sources.  build folds the sources into a running tree; it runs up to    *)
(* the first asynchronous source, whose collection it awaits, stays        *)
(* pending for any number of polls, and resumes with what the source       *)
(* collected.                                                              *)
(***************************************************************************)
\* a pending collection is polled at most MaxPolls times
MaxPolls == 2

\* the JSON values at the root of the texts drawn: two that are not
\* objects, and the objects over the keys with two numbers
JsonRoots ==
    {JBoolean(FALSE), JArray(<<JNumber(1)>>)}
        \cup {JObject(m) : m \in Maps(Keys, {JNumber(1), JNumber(2)})}

FileTexts == {Malformed, EmptyText} \cup {JsonText(j) : j \in JsonRoots}

Files == {NotFound} \cup {Found(text) : text \in FileTexts}

\* Order with a plausible slip: the sources that are not asynchronous are
\* collected first
OrderSyncFirst(srcs) ==
    LET all == [i \in 1..Len(srcs) |-> i]
        IsSync(i) == ~srcs[i].async
        IsAsync(i) == srcs[i].async
    IN  SelectSeq(all, IsSync) \o SelectSeq(all, IsAsync)

\* the order in which build collects the sources: that of registration
Order(srcs) == [i \in 1..Len(srcs) |-> i]

\* collect_to with a plausible slip: a source that fails is skipped
collect_toSkipsFailure(source, cache) ==
    LET r == collect(source) IN
    IF r.ok THEN [ok |-> TRUE, cache |-> Merge(cache, Table(r.map))]
    ELSE [ok |-> TRUE, cache |-> cache]

\* source.collect_to(&mut cache)?
collect_to(source, cache) ==
    LET r == collect(source) IN
    IF r.ok THEN [ok |-> TRUE, cache |-> Merge(cache, Table(r.map))]
    ELSE [ok |-> FALSE, error |-> r.error]

\* the loop of build over the sources from position st.cursor of the order
\* on, up to the end ("ok"), the first error ("err") or the first
\* asynchronous source, whose collection begins ("await"); Collected is
\* the rest of the loop once source i has collected
RECURSIVE RunSync(_, _)
RECURSIVE Collected(_, _, _)

RunSync(srcs, st) ==
    IF st.cursor > Len(srcs) THEN [st EXCEPT !.state = "ok"]
    ELSE LET i == Order(srcs)[st.cursor]
             begun == [st EXCEPT !.started = Append(@, i)]
         IN  IF srcs[i].async THEN [begun EXCEPT !.state = "await"]
             ELSE Collected(srcs, begun, i)

Collected(srcs, st, i) ==
    LET r == collect_to(srcs[i], st.cache) IN
    IF r.ok
    THEN RunSync(srcs, [st EXCEPT !.cache = r.cache,
                                  !.cursor = @ + 1,
                                  !.merged = Append(@, i)])
    ELSE [st EXCEPT !.state = "err", !.error = r.error]

\* the builder after the loop stopped in st
Land(st) ==
    /\ buildCache' = IF st.state = "await" THEN st.cache ELSE None
    /\ cursor' = st.cursor
    /\ started' = st.started
    /\ merged' = st.merged
    /\ built' = CASE st.state = "ok" -> [ok |-> TRUE, config |-> st.cache]
                  [] st.state = "err" -> [ok |-> FALSE, error |-> st.error]
                  [] st.state = "await" -> None
    /\ xpc' = IF st.state = "await" THEN "awaiting" ELSE "done"

BuildInit ==
    /\ registered = <<>>
    /\ buildCache = None
    /\ cursor = 0
    /\ polls = 0
    /\ started = <<>>
    /\ merged = <<>>
    /\ built = None
    /\ xpc = "open"
    /\ MergeIdle
    /\ BuilderIdle
    /\ PathIdle
    /\ ParseIdle
    /\ EnvIdle
    /\ SideIdle

\* builder.add_source(File)
add_source_file ==
    /\ xpc = "open"
    /\ Len(registered) < MaxSources
    /\ \E file \in Files : registered' = Append(registered, FileSource(file))
    /\ UNCHANGED <<buildCache, cursor, polls, started, merged, built, xpc>>
    /\ UNCHANGED <<mergeVars, builderVars, pathVars, parseVars, envStateVars, sideVars>>

\* builder.add_async_source(AsyncJson)
add_async_source ==
    /\ xpc = "open"
    /\ Len(registered) < MaxSources
    /\ \E text \in FileTexts : registered' = Append(registered, AsyncJson(text))
    /\ UNCHANGED <<buildCache, cursor, polls, started, merged, built, xpc>>
    /\ UNCHANGED <<mergeVars, builderVars, pathVars, parseVars, envStateVars, sideVars>>

\* builder.build(), up to its first await or its end
build_async ==
    /\ xpc = "open"
    /\ Land(RunSync(registered,
                    [cache |-> Table(EmptyMap), cursor |-> 1,
                     started |-> <<>>, merged |-> <<>>,
                     state |-> "run", error |-> None]))
    /\ UNCHANGED <<registered, polls>>
    /\ UNCHANGED <<mergeVars, builderVars, pathVars, parseVars, envStateVars, sideVars>>

\* a poll of the build while the collection it awaits is pending
poll_pending ==
    /\ xpc = "awaiting"
    /\ polls < MaxPolls
    /\ polls' = polls + 1
    /\ UNCHANGED <<registered, buildCache, cursor, started, merged, built, xpc>>
    /\ UNCHANGED <<mergeVars, builderVars, pathVars, parseVars, envStateVars, sideVars>>

\* the collection awaited completes and build runs on
resume ==
    /\ xpc = "awaiting"
    /\ Land(Collected(registered,
                      [cache |-> buildCache, cursor |-> cursor,
                       started |-> started, merged |-> merged,
                       state |-> "run", error |-> None],
                      Order(registered)[cursor]))
    /\ UNCHANGED <<registered, polls>>
    /\ UNCHANGED <<mergeVars, builderVars, pathVars, parseVars, envStateVars, sideVars>>

BuildNext ==
    \/ add_source_file
    \/ add_async_source
    \/ build_async
    \/ poll_pending
    \/ resume

SpecBuild == BuildInit /\ [][BuildNext]_vars

(***************************************************************************)
(* The path parser (src/path/parser.rs).  A text is a sequence of          *)
(* characters; a parser returns what it made of a prefix of its input and  *)
(* the rest of the input, or an error that lets the caller go on with      *)
(* something else (cut = FALSE) or does not (cut = TRUE).                  *)
(***************************************************************************)
\* the texts parsed have at most MaxText characters
MaxText == 4

\* the characters of the texts: letters, digits, the other two characters
\* of an identifier, the characters of a postfix, a space, a character of
\* no use in a path, and a letter that is not ASCII
Letters == {"a", "b"}

Digits == {"0", "1"}

NonAsciiLetters == {"é"}

Chars == Letters \cup Digits \cup NonAsciiLetters
            \cup {"_", "-", ".", "[", "]", " ", "!"}

Texts == UNION {[1..n -> Chars] : n \in 0..MaxText}

Ok(v, rest) == [ok |-> TRUE, val |-> v, rest |-> rest]

Backtrack(label, rest) ==
    [ok |-> FALSE, cut |-> FALSE, label |-> label, rest |-> rest]

cut_err(r) == IF r.ok THEN r ELSE [r EXCEPT !.cut = TRUE]

\* ('a'..='z', 'A'..='Z', '0'..='9', '_', '-')
IsIdentChar(c) == c \in Letters \cup Digits \cup {"_", "-"}

\* the length of the longest prefix of i made of the characters cs
RECURSIVE PrefixLen(_, _)
PrefixLen(i, cs) ==
    IF i = <<>> \/ Head(i) \notin cs THEN 0
    ELSE 1 + PrefixLen(Tail(i), cs)

Drop(i, n) == SubSeq(i, n + 1, Len(i))

\* raw_ident with a plausible slip: take_while(0.., ...), an identifier may
\* be empty
raw_identAllowsEmpty(i) ==
    LET n == PrefixLen(i, {c \in Chars : IsIdentChar(c)}) IN
    Ok(SubSeq(i, 1, n), Drop(i, n))

\* raw_ident with a plausible slip: every alphabetic character is taken
raw_identUnicode(i) ==
    LET n == PrefixLen(i, {c \in Chars : IsIdentChar(c)} \cup NonAsciiLetters)
    IN  IF n >= 1 THEN Ok(SubSeq(i, 1, n), Drop(i, n))
        ELSE Backtrack("identifier", i)

\* take_while(1.., ...)
raw_ident(i) ==
    LET n == PrefixLen(i, {c \in Chars : IsIdentChar(c)}) IN
    IF n >= 1 THEN Ok(SubSeq(i, 1, n), Drop(i, n))
    ELSE Backtrack("identifier", i)

ident(i) ==
    LET r == raw_ident(i) IN
    IF r.ok THEN Ok(Identifier(r.val), r.rest) ELSE r

\* space0
space0(i) == Drop(i, PrefixLen(i, {" "}))

\* the number written by the digits ds
RECURSIVE DigitsValue(_)
DigitsValue(ds) ==
    IF ds = <<>> THEN 0
    ELSE 10 * DigitsValue(SubSeq(ds, 1, Len(ds) - 1))
            + (IF ds[Len(ds)] = "1" THEN 1 ELSE 0)

\* integer: spaces, an optional '-' and digits read by isize::from_str,
\* spaces.  The texts drawn are shorter than the digits of an isize out of
\* range.
integer(i) ==
    LET a == space0(i)
        neg == a # <<>> /\ Head(a) = "-"
        b == IF neg THEN Tail(a) ELSE a
        n == PrefixLen(b, Digits)
    IN  IF n = 0 THEN Backtrack("integer", b)
        ELSE LET v == DigitsValue(SubSeq(b, 1, n)) IN
             Ok(IF neg THEN 0 - v ELSE v, space0(Drop(b, n)))

\* enum Child
ChildKey(k) == [child |-> "Key", key |-> k]

ChildIndex(k) == [child |-> "Index", index |-> k]

\* postfix: one character is taken, and '[' is followed by an integer and
\* ']', '.' by an identifier; after the character every error is cut
postfix(i) ==
    IF i = <<>> THEN Backtrack("postfix", i)
    ELSE LET rest == Tail(i) IN
         CASE Head(i) = "[" ->
                 LET r == integer(rest) IN
                 cut_err(IF ~r.ok THEN [r EXCEPT !.label = "subscript"]
                         ELSE IF r.rest # <<>> /\ Head(r.rest) = "]"
                              THEN Ok(ChildIndex(r.val), Tail(r.rest))
                              ELSE Backtrack("subscript", r.rest))
           [] Head(i) = "." ->
                 LET r == raw_ident(rest) IN
                 cut_err(IF r.ok THEN Ok(ChildKey(r.val), r.rest) ELSE r)
           [] OTHER -> cut_err(Backtrack("postfix", rest))

\* repeat(0.., postfix).fold(...): postfixes are taken until one fails; an
\* error that is cut is the error of the whole
RECURSIVE repeat_postfix(_, _)
repeat_postfix(prev, i) ==
    LET r == postfix(i) IN
    IF r.ok
    THEN repeat_postfix(IF r.val.child = "Key" THEN Child(prev, r.val.key)
                        ELSE Subscript(prev, r.val.index),
                        r.rest)
    ELSE IF r.cut THEN r
    ELSE Ok(prev, i)

path(i) ==
    LET r == ident(i) IN
    IF r.ok THEN repeat_postfix(r.val, r.rest) ELSE r

\* path.parse(input): the whole input has to be taken; an error tells the
\* offset at which it was met
from_str(text) ==
    LET r == path(text) IN
    IF ~r.ok
    THEN [ok |-> FALSE, label |-> r.label, offset |-> Len(text) - Len(r.rest)]
    ELSE IF r.rest # <<>>
         THEN [ok |-> FALSE, label |-> "eof", offset |-> Len(text) - Len(r.rest)]
         ELSE [ok |-> TRUE, val |-> r.val]

(***************************************************************************)
(* SpecParse: a text is drawn and parsed.                                  *)
(***************************************************************************)
ParseInit ==
    /\ input \in Texts
    /\ parsed = None
    /\ rpc = "text"
    /\ MergeIdle
    /\ BuilderIdle
    /\ PathIdle
    /\ BuildIdle
    /\ EnvIdle
    /\ SideIdle

\* Expression::from_str(input)
DoParse ==
    /\ rpc = "text"
    /\ parsed' = from_str(input)
    /\ rpc' = "parsed"
    /\ UNCHANGED <<input, mergeVars, builderVars, pathVars, buildVars,
                   envStateVars, sideVars>>

ParseNext == DoParse

SpecParse == ParseInit /\ [][ParseNext]_vars

(***************************************************************************)
(* The Environment source (src/env.rs).  Names and values of variables are *)
(* strings, modelled as sequences of characters; the keys of the tables    *)
(* collected are such sequences too.                                       *)
(***************************************************************************)
String(s) == [kind |-> "String", s |-> s]

Float(s) == [kind |-> "Float", f |-> s]

\* char::to_lowercase on the letters of the names drawn
ToLowerChar(c) ==
    CASE c = "A" -> "a"
      [] c = "B" -> "b"
      [] c = "L" -> "l"
      [] c = "T" -> "t"
      [] OTHER -> c

\* str::to_lowercase
to_lowercase(s) == [j \in 1..Len(s) |-> ToLowerChar(s[j])]

\* str::starts_with
starts_with(s, pattern) ==
    Len(pattern) <= Len(s) /\ SubSeq(s, 1, Len(pattern)) = pattern

\* str::replace(from, to), from not empty
RECURSIVE replace(_, _, _)
replace(s, from, to) ==
    IF s = <<>> THEN <<>>
    ELSE IF starts_with(s, from)
         THEN to \o replace(Drop(s, Len(from)), from, to)
         ELSE <<Head(s)>> \o replace(Tail(s), from, to)

\* str::split(pattern), pattern not empty: the parts between the matches
RECURSIVE SplitFrom(_, _, _)
SplitFrom(s, pattern, part) ==
    IF s = <<>> THEN <<part>>
    ELSE IF starts_with(s, pattern)
         THEN <<part>> \o SplitFrom(Drop(s, Len(pattern)), pattern, <<>>)
         ELSE SplitFrom(Tail(s), pattern, Append(part, Head(s)))

split(s, pattern) == SplitFrom(s, pattern, <<>>)

DecimalDigits == {"0", "1", "2", "3", "4", "5", "6", "7", "8", "9"}

DigitValue(c) ==
    CASE c = "0" -> 0 [] c = "1" -> 1 [] c = "2" -> 2 [] c = "3" -> 3
      [] c = "4" -> 4 [] c = "5" -> 5 [] c = "6" -> 6 [] c = "7" -> 7
      [] c = "8" -> 8 [] c = "9" -> 9

RECURSIVE DecimalValue(_)
DecimalValue(ds) ==
    IF ds = <<>> THEN 0
    ELSE 10 * DecimalValue(SubSeq(ds, 1, Len(ds) - 1)) + DigitValue(ds[Len(ds)])

IsDecimal(s) == s # <<>> /\ \A j \in 1..Len(s) : s[j] \in DecimalDigits

\* str::parse::<usize>(): digits after an optional '+'.  The names drawn
\* are shorter than the digits of a usize out of range.
parse_usize(s) ==
    LET ds == IF s # <<>> /\ Head(s) = "+" THEN Tail(s) ELSE s IN
    IF IsDecimal(ds) THEN [ok |-> TRUE, val |-> DecimalValue(ds)]
    ELSE [ok |-> FALSE]

\* str::parse::<i64>(): digits after an optional sign
parse_i64(s) ==
    LET signed == s # <<>> /\ Head(s) \in {"+", "-"}
        ds == IF signed THEN Tail(s) ELSE s
    IN  IF IsDecimal(ds)
        THEN [ok |-> TRUE,
              val |-> IF signed /\ Head(s) = "-" THEN 0 - DecimalValue(ds)
                      ELSE DecimalValue(ds)]
        ELSE [ok |-> FALSE]

\* str::parse::<bool>()
parse_bool(s) ==
    IF s = <<"t", "r", "u", "e">> THEN [ok |-> TRUE, val |-> TRUE]
    ELSE IF s = <<"f", "a", "l", "s", "e">> THEN [ok |-> TRUE, val |-> FALSE]
    ELSE [ok |-> FALSE]

\* str::parse::<f64>() on the values drawn: digits with a '.' among them,
\* after an optional sign
parse_f64(s) ==
    LET signed == s # <<>> /\ Head(s) \in {"+", "-"}
        ds == IF signed THEN Tail(s) ELSE s
        dots == {j \in 1..Len(ds) : ds[j] = "."}
    IN  IF /\ Cardinality(dots) <= 1
           /\ \E j \in 1..Len(ds) : ds[j] \in DecimalDigits
           /\ \A j \in 1..Len(ds) : ds[j] \in DecimalDigits \cup {"."}
        THEN [ok |-> TRUE, val |-> s]
        ELSE [ok |-> FALSE]

\* Option of a string or of a list of strings
Absent == [some |-> FALSE]

Some(v) == [some |-> TRUE, val |-> v]

\* Environment::default().separator(sep).try_parsing(b)
Environment(sep, b) ==
    [prefix |-> Absent, prefix_separator |-> Absent, separator |-> Some(sep),
     list_separator |-> Absent, list_parse_keys |-> Absent,
     ignore_empty |-> FALSE, try_parsing |-> b, keep_prefix |-> FALSE]

\* the kind of the value with a plausible slip: the float is tried before
\* the integer
ValueKindOfFloatFirst(self, key, value) ==
    IF self.try_parsing
    THEN LET asBool == parse_bool(to_lowercase(value))
             asI64 == parse_i64(value)
             asF64 == parse_f64(value)
             parts == split(value, self.list_separator.val)
             asList == Array([j \in 1..Len(parts) |-> String(parts[j])])
         IN  IF asBool.ok THEN Boolean(asBool.val)
             ELSE IF asF64.ok THEN Float(asF64.val)
             ELSE IF asI64.ok THEN I64(asI64.val)
             ELSE IF self.list_separator.some
                  THEN IF self.list_parse_keys.some
                       THEN IF key \in self.list_parse_keys.val THEN asList
                            ELSE String(value)
                       ELSE asList
                  ELSE String(value)
    ELSE String(value)

\* the kind of the value with a plausible slip: the list-parse keys are
\* not looked at, every text is split where a list separator is set
ValueKindOfSplitsAll(self, key, value) ==
    IF self.try_parsing
    THEN LET asBool == parse_bool(to_lowercase(value))
             asI64 == parse_i64(value)
             asF64 == parse_f64(value)
             parts == split(value, self.list_separator.val)
         IN  IF asBool.ok THEN Boolean(asBool.val)
             ELSE IF asI64.ok THEN I64(asI64.val)
             ELSE IF asF64.ok THEN Float(asF64.val)
             ELSE IF self.list_separator.some
                  THEN Array([j \in 1..Len(parts) |-> String(parts[j])])
                  ELSE String(value)
    ELSE String(value)

\* the kind of the value of a variable
ValueKindOf(self, key, value) ==
    IF self.try_parsing
    THEN LET asBool == parse_bool(to_lowercase(value))
             asI64 == parse_i64(value)
             asF64 == parse_f64(value)
             parts == split(value, self.list_separator.val)
             asList == Array([j \in 1..Len(parts) |-> String(parts[j])])
         IN  IF asBool.ok THEN Boolean(asBool.val)
             ELSE IF asI64.ok THEN I64(asI64.val)
             ELSE IF asF64.ok THEN Float(asF64.val)
             ELSE IF self.list_separator.some
                  THEN IF self.list_parse_keys.some
                       THEN IF key \in self.list_parse_keys.val THEN asList
                            ELSE String(value)
                       ELSE asList
                  ELSE String(value)
    ELSE String(value)

\* the step of the fold with a plausible slip: the value is put in an array
\* of its own, without the Nil in front of it
FoldPartNoPadding(value, key) ==
    LET index == parse_usize(key) IN
    IF index.ok THEN Array(<<value>>)
    ELSE Table(MapInsert(EmptyMap, key, value))

\* the step of the fold with a plausible slip: the array is filled with
\* the value, not with Nil
FoldPartFillsValue(value, key) ==
    LET index == parse_usize(key) IN
    IF index.ok THEN Array([j \in 1..(index.val + 1) |-> value])
    ELSE Table(MapInsert(EmptyMap, key, value))

\* a step of key_parts.rev().fold(value, ...): a part that is a number
\* wraps the value in an array with the value at that index and Nil before
\* it, any other part wraps it in a table
FoldPart(value, key) ==
    LET index == parse_usize(key) IN
    IF index.ok THEN Array(ArrayStore(NilSeq(index.val + 1), index.val, value))
    ELSE Table(MapInsert(EmptyMap, key, value))

\* the fold over the parts after the first, from the last one back
RECURSIVE FoldParts(_, _)
FoldParts(value, key_parts) ==
    IF key_parts = <<>> THEN value
    ELSE FoldPart(FoldParts(value, Tail(key_parts)), Head(key_parts))

\* Value::merge: tables are merged key by key and arrays position by
\* position, where a Nil of the other array leaves the position as it is;
\* any other value is replaced by the other
RECURSIVE Value_merge(_, _)
Value_merge(self, other) ==
    IF IsTable(self) /\ IsTable(other)
    THEN Table([k \in (DOMAIN self.map) \cup (DOMAIN other.map) |->
                   IF k \notin DOMAIN other.map THEN self.map[k]
                   ELSE IF k \notin DOMAIN self.map THEN other.map[k]
                   ELSE Value_merge(self.map[k], other.map[k])])
    ELSE IF IsArray(self) /\ IsArray(other)
    THEN LET n == IF Len(self.array) > Len(other.array) THEN Len(self.array)
                  ELSE Len(other.array)
         IN  Array([j \in 1..n |->
                       IF j > Len(other.array) THEN self.array[j]
                       ELSE IF j > Len(self.array) THEN other.array[j]
                       ELSE IF other.array[j] = Nil THEN self.array[j]
                       ELSE Value_merge(self.array[j], other.array[j])])
    ELSE other

\* the collector with a plausible slip: the prefix stripped is not put
\* back where keep_prefix is set
collectorDropsPrefix(self, m, key, value) ==
    IF self.ignore_empty /\ value = <<>> THEN m
    ELSE
    LET separator == IF self.separator.some THEN self.separator.val ELSE <<>>
        prefix_separator ==
            IF self.prefix_separator.some THEN self.prefix_separator.val
            ELSE IF self.separator.some THEN self.separator.val
            ELSE <<"_">>
        lower == to_lowercase(key)
        prefix_pattern ==
            IF self.prefix.some
            THEN Some(to_lowercase(self.prefix.val \o prefix_separator))
            ELSE Absent
        skipped ==
            prefix_pattern.some /\ ~starts_with(lower, prefix_pattern.val)
        stripped == IF prefix_pattern.some /\ ~skipped
                    THEN Drop(lower, Len(prefix_pattern.val)) ELSE lower
        dotted == IF separator # <<>> THEN replace(stripped, separator, <<".">>)
                  ELSE stripped
        key_parts == split(dotted, <<".">>)
        folded == FoldParts(ValueKindOf(self, dotted, value), Tail(key_parts))
        table == Table(MapInsert(EmptyMap, Head(key_parts), folded))
    IN  IF skipped THEN m ELSE Value_merge(m, table)

\* the collector with a plausible slip: the value folded is merged, not
\* the table that holds it under the first part of the key
collectorMergesValue(self, m, key, value) ==
    IF self.ignore_empty /\ value = <<>> THEN m
    ELSE
    LET separator == IF self.separator.some THEN self.separator.val ELSE <<>>
        prefix_separator ==
            IF self.prefix_separator.some THEN self.prefix_separator.val
            ELSE IF self.separator.some THEN self.separator.val
            ELSE <<"_">>
        lower == to_lowercase(key)
        prefix_pattern ==
            IF self.prefix.some
            THEN Some(to_lowercase(self.prefix.val \o prefix_separator))
            ELSE Absent
        skipped ==
            prefix_pattern.some /\ ~starts_with(lower, prefix_pattern.val)
        stripped == IF prefix_pattern.some /\ ~skipped
                    THEN Drop(lower, Len(prefix_pattern.val)) ELSE lower
        dotted == IF separator # <<>> THEN replace(stripped, separator, <<".">>)
                  ELSE stripped
        key_parts == split(dotted, <<".">>)
        folded == FoldParts(ValueKindOf(self, dotted, value), Tail(key_parts))
    IN  IF skipped THEN m ELSE Value_merge(m, folded)

\* the collector closure of collect on one variable: the table collected
\* so far (m) after the variable is visited
collector(self, m, key, value) ==
    IF self.ignore_empty /\ value = <<>> THEN m
    ELSE
    LET separator == IF self.separator.some THEN self.separator.val ELSE <<>>
        prefix_separator ==
            IF self.prefix_separator.some THEN self.prefix_separator.val
            ELSE IF self.separator.some THEN self.separator.val
            ELSE <<"_">>
        lower == to_lowercase(key)
        prefix_pattern ==
            IF self.prefix.some
            THEN Some(to_lowercase(self.prefix.val \o prefix_separator))
            ELSE Absent
        skipped ==
            prefix_pattern.some /\ ~starts_with(lower, prefix_pattern.val)
        stripped == IF prefix_pattern.some /\ ~skipped
                    THEN Drop(lower, Len(prefix_pattern.val)) ELSE lower
        kept_prefix == IF prefix_pattern.some /\ ~skipped /\ self.keep_prefix
                       THEN prefix_pattern.val ELSE <<>>
        dotted == IF separator # <<>> THEN replace(stripped, separator, <<".">>)
                  ELSE stripped
        key_parts == split(dotted, <<".">>)
        folded == FoldParts(ValueKindOf(self, dotted, value), Tail(key_parts))
        table == Table(MapInsert(EmptyMap, kept_prefix \o Head(key_parts), folded))
    IN  IF skipped THEN m ELSE Value_merge(m, table)

(***************************************************************************)
(* SpecEnv: an Environment source with separator `_` collects a set of     *)
(* variables, visiting them one at a time in any order.                    *)
(***************************************************************************)
\* a set of variables drawn has at most MaxVars variables
MaxVars == 3

Var(key, value) == [key |-> key, value |-> value]

\* the names drawn: elements A_j and B of the entries i of a list L, and
\* names that give L, an entry of L or its element A another shape
ListNames ==
    {<<"L", "_", i, "_", "A", "_", j>> : i \in {"0", "1"}, j \in {"0", "2"}}
        \cup {<<"L", "_", i, "_", "B">> : i \in {"0", "1"}}

OtherNames == {<<"L", "_", "0">>, <<"L", "_", "A">>, <<"l", "_", "1", "_", "b">>}

EnvValues == {<<"1">>, <<"2">>}

\* the variables of the example in the documentation of Environment
DocExample ==
    {Var(<<"L", "_", "0", "_", "A", "_", "0">>, <<"1">>),
     Var(<<"L", "_", "0", "_", "A", "_", "2">>, <<"2">>),
     Var(<<"L", "_", "0", "_", "B">>, <<"3">>),
     Var(<<"L", "_", "1", "_", "A", "_", "1">>, <<"4">>),
     Var(<<"L", "_", "1", "_", "B">>, <<"5">>)}

\* the sets of variables drawn: a name has one value
Environs ==
    UNION {{{Var(k, f[k]) : k \in ks} : f \in [ks -> EnvValues]} :
              ks \in {x \in SUBSET (ListNames \cup OtherNames) :
                         Cardinality(x) <= MaxVars}}
        \cup {DocExample}

EnvInit ==
    /\ environment \in {Environment(<<"_">>, b) : b \in BOOLEAN}
    /\ envVars \in Environs
    /\ envLeft = envVars
    /\ envTable = Table(EmptyMap)
    /\ collected = None
    /\ epc = "collecting"
    /\ MergeIdle
    /\ BuilderIdle
    /\ PathIdle
    /\ BuildIdle
    /\ ParseIdle
    /\ SideIdle

\* the collector visits the next variable
visit ==
    /\ epc = "collecting"
    /\ \E v \in envLeft :
          /\ envTable' = collector(environment, envTable, v.key, v.value)
          /\ envLeft' = envLeft \ {v}
    /\ UNCHANGED <<environment, envVars, collected, epc>>
    /\ UNCHANGED <<mergeVars, builderVars, pathVars, buildVars, parseVars, sideVars>>

\* every variable was visited: collect returns the map of the table
collect_return ==
    /\ epc = "collecting"
    /\ envLeft = {}
    /\ collected' = IF IsTable(envTable) THEN [ok |-> TRUE, map |-> envTable.map]
                    ELSE [ok |-> FALSE, panic |-> "unreachable"]
    /\ epc' = "done"
    /\ UNCHANGED <<environment, envVars, envLeft, envTable>>
    /\ UNCHANGED <<mergeVars, builderVars, pathVars, buildVars, parseVars, sideVars>>

EnvNext ==
    \/ visit
    \/ collect_return

SpecEnv == EnvInit /\ [][EnvNext]_vars

(***************************************************************************)
(* SpecEnvOpts: an Environment source with any of its options collects    *)
(* one variable.                                                           *)
(***************************************************************************)
\* the options drawn: a prefix `A`, a prefix separator `-`, a separator
\* `_`, a list separator `,` or `.`, and list-parse keys as
\* with_list_parse_key stores them, in lower case
OptPrefixes == {Absent, Some(<<"A">>)}

OptPrefixSeparators == {Absent, Some(<<"-">>)}

OptSeparators == {Absent, Some(<<"_">>)}

OptListSeparators == {Absent, Some(<<",">>), Some(<<".">>)}

OptListParseKeys ==
    {Absent, Some({<<"l">>}), Some({<<"b", ".", "l">>, <<"b", "_", "l">>})}

OptEnvironments ==
    {[prefix |-> p, prefix_separator |-> ps, separator |-> s,
      list_separator |-> ls, list_parse_keys |-> lk,
      ignore_empty |-> ie, try_parsing |-> tp, keep_prefix |-> kp] :
        p \in OptPrefixes, ps \in OptPrefixSeparators, s \in OptSeparators,
        ls \in OptListSeparators, lk \in OptListParseKeys,
        ie \in BOOLEAN, tp \in BOOLEAN, kp \in BOOLEAN}

\* the names drawn, with and without the prefix and either prefix separator
OptNames ==
    {<<"L">>, <<"B", "_", "L">>, <<"A", "_", "L">>, <<"A", "-", "L">>,
     <<"A", "_", "B", "_", "L">>, <<"A", "-", "B", "_", "L">>, <<"A", "L">>}

\* the values drawn: a boolean in mixed case, an integer, a float, texts
\* with and without the list separator, and the empty text
OptValues ==
    {<<"T", "r", "u", "e">>, <<"1">>, <<"-", "1">>, <<"1", ".", "5">>,
     <<"a">>, <<"a", ",", "b">>, <<"1", ",", "2">>, <<>>}

EnvOptsInit ==
    /\ environment \in OptEnvironments
    /\ envVars \in {{Var(k, v)} : k \in OptNames, v \in OptValues}
    /\ envLeft = envVars
    /\ envTable = Table(EmptyMap)
    /\ collected = None
    /\ epc = "collecting"
    /\ MergeIdle
    /\ BuilderIdle
    /\ PathIdle
    /\ BuildIdle
    /\ ParseIdle
    /\ SideIdle

SpecEnvOpts == EnvOptsInit /\ [][EnvNext]_vars

(***************************************************************************)
(* SpecEnvOs: an Environment source without a source of its own collects   *)
(* the variables of the process, whose names and values are OsStrings.     *)
(***************************************************************************)
\* an OsString that is valid Unicode, and one that is not (the byte 0xFF)
OsString(s) == [unicode |-> TRUE, s |-> s]

InvalidOsString == [unicode |-> FALSE, s |-> <<"?">>]

OsNames == {OsString(<<"A", "_", "L">>), OsString(<<"L">>), InvalidOsString}

OsValues == {OsString(<<"1">>), InvalidOsString}

\* the environments of the process drawn: a name has one value
OsEnvirons ==
    UNION {{{Var(k, f[k]) : k \in ks} : f \in [ks -> OsValues]} :
              ks \in {x \in SUBSET OsNames : Cardinality(x) <= MaxVars}}

\* Environment::default() and Environment::with_prefix("A"), with and
\* without keep_prefix
OsEnvironments ==
    {[Environment(<<"_">>, FALSE) EXCEPT
         !.prefix = p, !.separator = Absent, !.keep_prefix = kp] :
        p \in OptPrefixes, kp \in BOOLEAN}

EnvOsInit ==
    /\ environment \in OsEnvironments
    /\ envVars \in OsEnvirons
    /\ envLeft = envVars
    /\ envTable = Table(EmptyMap)
    /\ collected = None
    /\ epc = "collecting"
    /\ MergeIdle
    /\ BuilderIdle
    /\ PathIdle
    /\ BuildIdle
    /\ ParseIdle
    /\ SideIdle

\* env::vars() yields the next variable of the process to the collector:
\* std::env::Vars::next unwraps OsString::into_string of the name and of
\* the value, and panics where either is not valid Unicode
vars_next ==
    /\ epc = "collecting"
    /\ \E v \in envLeft :
          IF v.key.unicode /\ v.value.unicode
          THEN /\ envTable' = collector(environment, envTable, v.key.s, v.value.s)
               /\ envLeft' = envLeft \ {v}
               /\ UNCHANGED <<collected, epc>>
          ELSE /\ collected' = [ok |-> FALSE, panic |-> "env::vars"]
               /\ epc' = "panicked"
               /\ UNCHANGED <<envTable, envLeft>>
    /\ UNCHANGED <<environment, envVars>>
    /\ UNCHANGED <<mergeVars, builderVars, pathVars, buildVars, parseVars, sideVars>>

EnvOsNext ==
    \/ vars_next
    \/ collect_return

SpecEnvOs == EnvOsInit /\ [][EnvOsNext]_vars

(***************************************************************************)
(* SpecReach: the calls of SpecPathAny and the collections of SpecEnv      *)
(* together, for what holds of the path evaluator and of collect alike.    *)
(***************************************************************************)
ReachInit == PathInitAny \/ EnvInit

ReachNext == PathNext \/ EnvNext

SpecReach == ReachInit /\ [][ReachNext]_vars

(***************************************************************************)
(* The file source on disk (src/file/source/file.rs).  A file name is the  *)
(* sequence of the texts between its dots (file.default.json is            *)
(* <<"file", "default", "json">>); all names are in one directory.         *)
(***************************************************************************)
\* Path::extension: the text after the last dot of the name, if the name
\* has a dot that is not its first character only
extension(filename) ==
    IF Len(filename) >= 2 /\ ~(Len(filename) = 2 /\ filename[1] = "")
    THEN Some(filename[Len(filename)])
    ELSE Absent

\* PathBuf::set_extension: the extension is replaced, or added to a name
\* that has none
set_extension(filename, ext) ==
    IF extension(filename).some
    THEN Append(SubSeq(filename, 1, Len(filename) - 1), ext)
    ELSE Append(filename, ext)

\* the placeholder with a plausible slip: the name is left as it is, so
\* that set_extension replaces the extension-like text of the name
PlaceholderNever(filename) == filename

\* a name with an extension-like text gets `.placeholder` appended, for
\* set_extension to replace
Placeholder(filename) ==
    IF extension(filename).some THEN Append(filename, "placeholder")
    ELSE filename

\* identify_format: the extension of the name, or the empty text, is one
\* of the extensions of the format
identify_format(filename, extensions) ==
    LET ext == IF extension(filename).some THEN extension(filename).val
               ELSE ""
    IN  \E j \in 1..Len(extensions) : extensions[j] = ext

\* file_exists_with_format: the extensions of the format are set on the
\* name one after the other until the name is a file; the name stays as
\* it was last set
RECURSIVE file_exists_with_format(_, _, _)
file_exists_with_format(filename, extensions, files) ==
    IF extensions = <<>> THEN [exists |-> FALSE, filename |-> filename]
    ELSE LET renamed == set_extension(filename, Head(extensions)) IN
         IF renamed \in files THEN [exists |-> TRUE, filename |-> renamed]
         ELSE file_exists_with_format(renamed, Tail(extensions), files)

error_invalid_format ==
    [ok |-> FALSE, message |-> "is not of a registered file format"]

error_invalid_path == [ok |-> FALSE, message |-> "not found"]

FoundFile(filename, format) ==
    [ok |-> TRUE, filename |-> filename, format |-> format]

\* the loop over all_extensions().keys() for a file that exists as named:
\* the first format of the order that the extension identifies
RECURSIVE IdentifyLoop(_, _, _)
IdentifyLoop(filename, formats, order) ==
    IF order = <<>> THEN error_invalid_format
    ELSE IF identify_format(filename, formats[Head(order)])
         THEN FoundFile(filename, Head(order))
         ELSE IdentifyLoop(filename, formats, Tail(order))

\* the loop over all_extensions().keys() for a name that is no file: the
\* first format of the order with an extension that makes the name a file
RECURSIVE ExistsLoop(_, _, _, _)
ExistsLoop(filename, formats, order, files) ==
    IF order = <<>> THEN error_invalid_path
    ELSE LET tried == file_exists_with_format(filename, formats[Head(order)],
                                              files)
         IN  IF tried.exists THEN FoundFile(tried.filename, Head(order))
             ELSE ExistsLoop(tried.filename, formats, Tail(order), files)

\* FileSourceFile::find_file, with the formats registered, the order in
\* which the map of the formats gives them, and the files on disk
find_file(name, format_hint, formats, order, files) ==
    IF name \in files
    THEN IF format_hint.some THEN FoundFile(name, format_hint.val)
         ELSE IdentifyLoop(name, formats, order)
    ELSE LET filename == Placeholder(name) IN
         IF format_hint.some
         THEN LET tried == file_exists_with_format(
                               filename, formats[format_hint.val], files)
              IN  IF tried.exists
                  THEN FoundFile(tried.filename, format_hint.val)
                  ELSE error_invalid_path
         ELSE ExistsLoop(filename, formats, order, files)

(***************************************************************************)
(* SpecFind: a file source is given a name, with or without a format, and  *)
(* looks for its file among the files on disk.                             *)
(***************************************************************************)
\* the registries drawn: formats with the extensions they are stored with
Registries ==
    {[Json |-> <<"json">>],
     [Json |-> <<"json">>, Yaml |-> <<"yaml", "yml">>]}

\* the names drawn: file, with up to two texts after it
NameTexts == {"default", "json", "yml"}

FileNames ==
    {<<"file">>} \cup {<<"file", a>> : a \in NameTexts \cup {"yaml"}}
        \cup {<<"file", "default", b>> : b \in NameTexts \cup {"yaml"}}

\* the orders in which a map may give its keys
Orders(S) ==
    {o \in [1..Cardinality(S) -> S] : \A i, j \in 1..Cardinality(S) :
                                          o[i] = o[j] => i = j}

FindInit ==
    /\ registry \in Registries
    /\ disk \in SUBSET FileNames
    /\ fileName \in {n \in FileNames : Len(n) <= 2}
    /\ formatHint \in {Absent} \cup {Some(f) : f \in DOMAIN registry}
    /\ located = None
    /\ fpc = "new"
    /\ MergeIdle
    /\ BuilderIdle
    /\ PathIdle
    /\ BuildIdle
    /\ ParseIdle
    /\ EnvIdle
    /\ WatchIdle
    /\ ExpandIdle

\* the file source looks for its file
DoFindFile ==
    /\ fpc = "new"
    /\ \E order \in Orders(DOMAIN registry) :
          located' = find_file(fileName, formatHint, registry, order, disk)
    /\ fpc' = "done"
    /\ UNCHANGED <<registry, disk, fileName, formatHint>>
    /\ UNCHANGED <<mergeVars, builderVars, pathVars, buildVars, parseVars,
                   envStateVars, watchVars, expandVars>>

FindNext == DoFindFile

SpecFind == FindInit /\ [][FindNext]_vars

(***************************************************************************)
(* The watch example (examples/watch/main.rs).  The main thread shows the  *)
(* settings, then waits for the events of the file and, for each, calls    *)
(* refresh and show; another thread calls show all the time.  A Config is  *)
(* the value of each of its keys, taken from the version of the file it    *)
(* was built from.  Moving a Config to the holder and cloning it from the  *)
(* holder go key by key.                                                   *)
(***************************************************************************)
\* the file changes at most MaxChanges times
MaxChanges == 2

\* the settings file with the values of a version, and one that does not
\* parse
Toml(version) == [valid |-> TRUE, version |-> version]

BrokenToml == [valid |-> FALSE]

\* the configuration built from a version of the file
ConfigOf(version) == [k \in Keys |-> version]

Threads == {"main", "reader"}

\* the lock of the holder: whether it is held for writing, and the threads
\* that hold it for reading
Unlocked == [writer |-> FALSE, readers |-> {}]

\* RwLock::read with a plausible slip: the reader does not wait for the
\* writer
CanReadAlways(lock) == TRUE

\* RwLock::read returns when no thread holds the lock for writing
CanRead(lock) == ~lock.writer

\* RwLock::write returns when no thread holds the lock at all
CanWrite(lock) == ~lock.writer /\ lock.readers = {}

\* the step a thread is at
PcOf(t) == IF t = "main" THEN wpc ELSE readerPc

\* the thread goes to a step, the other stays where it is
Goto(t, step) ==
    IF t = "main" THEN wpc' = step /\ UNCHANGED readerPc
    ELSE readerPc' = step /\ UNCHANGED wpc

\* the main thread has not panicked: a panic of the main thread ends the
\* process
Running == wpc # "panicked"

\* the state after settings() has made the holder from the file as it is
\* at the start
WatchInit ==
    /\ settingsToml = Toml(1)
    /\ holder = ConfigOf(1)
    /\ rwlock = Unlocked
    /\ loaded = None
    /\ wpc = "show"
    /\ readerPc = "show"
    /\ reading = [t \in Threads |-> None]
    /\ shown = {}
    /\ changes = 0
    /\ events = 0
    /\ MergeIdle
    /\ BuilderIdle
    /\ PathIdle
    /\ BuildIdle
    /\ ParseIdle
    /\ EnvIdle
    /\ FileIdle
    /\ ExpandIdle

\* the settings file is written, with new values or with a text that does
\* not parse; the watcher of the file sends an event
modify_settings ==
    /\ Running
    /\ changes < MaxChanges
    /\ settingsToml' \in {Toml(changes + 2), BrokenToml}
    /\ changes' = changes + 1
    /\ events' = events + 1
    /\ UNCHANGED <<holder, rwlock, loaded, wpc, readerPc, reading, shown>>
    /\ UNCHANGED <<mergeVars, builderVars, pathVars, buildVars, parseVars,
                   envStateVars, fileVars, expandVars>>

\* watch: rx.recv() returns an event of the file
recv ==
    /\ wpc = "recv"
    /\ events > 0
    /\ events' = events - 1
    /\ wpc' = "load"
    /\ UNCHANGED <<holder, rwlock, settingsToml, loaded, readerPc, reading,
                   shown, changes>>
    /\ UNCHANGED <<mergeVars, builderVars, pathVars, buildVars, parseVars,
                   envStateVars, fileVars, expandVars>>

\* refresh: load() is evaluated before the lock is taken; build().unwrap()
\* panics on a file that does not parse
load ==
    /\ wpc = "load"
    /\ IF settingsToml.valid
       THEN /\ loaded' = [config |-> ConfigOf(settingsToml.version),
                          left |-> Keys]
            /\ wpc' = "write"
       ELSE /\ wpc' = "panicked"
            /\ UNCHANGED loaded
    /\ UNCHANGED <<holder, rwlock, settingsToml, readerPc, reading, shown,
                   changes, events>>
    /\ UNCHANGED <<mergeVars, builderVars, pathVars, buildVars, parseVars,
                   envStateVars, fileVars, expandVars>>

\* refresh: settings().write().unwrap()
write_lock ==
    /\ wpc = "write"
    /\ CanWrite(rwlock)
    /\ rwlock' = [rwlock EXCEPT !.writer = TRUE]
    /\ wpc' = "store"
    /\ UNCHANGED <<holder, settingsToml, loaded, readerPc, reading, shown,
                   changes, events>>
    /\ UNCHANGED <<mergeVars, builderVars, pathVars, buildVars, parseVars,
                   envStateVars, fileVars, expandVars>>

\* refresh: the assignment through the guard moves a part of the
\* configuration loaded to the holder
store ==
    /\ wpc = "store"
    /\ \E k \in loaded.left :
          /\ holder' = [holder EXCEPT ![k] = loaded.config[k]]
          /\ loaded' = [loaded EXCEPT !.left = @ \ {k}]
    /\ UNCHANGED <<rwlock, settingsToml, wpc, readerPc, reading, shown,
                   changes, events>>
    /\ UNCHANGED <<mergeVars, builderVars, pathVars, buildVars, parseVars,
                   envStateVars, fileVars, expandVars>>

\* refresh: the guard is dropped at the end of the statement
write_unlock ==
    /\ wpc = "store"
    /\ loaded.left = {}
    /\ rwlock' = [rwlock EXCEPT !.writer = FALSE]
    /\ wpc' = "show"
    /\ UNCHANGED <<holder, settingsToml, loaded, readerPc, reading, shown,
                   changes, events>>
    /\ UNCHANGED <<mergeVars, builderVars, pathVars, buildVars, parseVars,
                   envStateVars, fileVars, expandVars>>

\* show: settings().read().unwrap()
read_lock(t) ==
    /\ Running
    /\ PcOf(t) = "show"
    /\ CanRead(rwlock)
    /\ rwlock' = [rwlock EXCEPT !.readers = @ \cup {t}]
    /\ reading' = [reading EXCEPT ![t] = [config |-> << >>, left |-> Keys]]
    /\ Goto(t, "clone")
    /\ UNCHANGED <<holder, settingsToml, loaded, shown, changes, events>>
    /\ UNCHANGED <<mergeVars, builderVars, pathVars, buildVars, parseVars,
                   envStateVars, fileVars, expandVars>>

\* show: clone() copies a part of the configuration in the holder
clone(t) ==
    /\ Running
    /\ PcOf(t) = "clone"
    /\ \E k \in reading[t].left :
          reading' = [reading EXCEPT
                         ![t] = [config |-> [j \in DOMAIN @.config \cup {k} |->
                                                IF j = k THEN holder[k]
                                                ELSE @.config[j]],
                                 left |-> @.left \ {k}]]
    /\ UNCHANGED <<holder, rwlock, settingsToml, loaded, wpc, readerPc, shown,
                   changes, events>>
    /\ UNCHANGED <<mergeVars, builderVars, pathVars, buildVars, parseVars,
                   envStateVars, fileVars, expandVars>>

\* show: the guard is dropped when the clone is made, and the clone is
\* deserialized and printed
print(t) ==
    /\ Running
    /\ PcOf(t) = "clone"
    /\ reading[t].left = {}
    /\ rwlock' = [rwlock EXCEPT !.readers = @ \ {t}]
    /\ shown' = shown \cup {reading[t].config}
    /\ Goto(t, IF t = "main" THEN "recv" ELSE "show")
    /\ UNCHANGED <<holder, settingsToml, loaded, reading, changes, events>>
    /\ UNCHANGED <<mergeVars, builderVars, pathVars, buildVars, parseVars,
                   envStateVars, fileVars, expandVars>>

WatchNext ==
    \/ modify_settings
    \/ recv
    \/ load
    \/ write_lock
    \/ store
    \/ write_unlock
    \/ \E t \in Threads : read_lock(t)
    \/ \E t \in Threads : clone(t)
    \/ \E t \in Threads : print(t)

SpecWatch == WatchInit /\ [][WatchNext]_vars

(***************************************************************************)
(* The expansion of environment variables in a text                       *)
(* (src/nested_env_vars.rs, feature substitute_env).  Texts are sequences  *)
(* of characters.                                                          *)
(***************************************************************************)
\* std::env::var: the value of the variable, or an error where it is not
\* set; the process has at most the variable A
env_var(env, var_name) ==
    IF env.some /\ var_name = <<"A">> THEN [ok |-> TRUE, val |-> env.val]
    ELSE [ok |-> FALSE]

\* str::find: the offset of the first match of the pattern
RECURSIVE find(_, _)
find(s, pattern) ==
    IF Len(s) < Len(pattern) THEN Absent
    ELSE IF starts_with(s, pattern) THEN Some(0)
    ELSE LET later == find(Tail(s), pattern) IN
         IF later.some THEN Some(later.val + 1) ELSE Absent

\* the inner loop of expand_env_vars: the characters up to the closing
\* brace are taken from chars into var_expr
RECURSIVE TakeExpr(_, _)
TakeExpr(chars, var_expr) ==
    IF chars = <<>>
    THEN [found_closing |-> FALSE, var_expr |-> var_expr, chars |-> <<>>]
    ELSE IF Head(chars) = "}"
    THEN [found_closing |-> TRUE, var_expr |-> var_expr, chars |-> Tail(chars)]
    ELSE TakeExpr(Tail(chars), Append(var_expr, Head(chars)))

\* the text for a closed expression with a plausible slip: a variable
\* that is set to the empty text is not replaced by the default
SubstituteEmptyWins(env, var_expr) ==
    LET colon_pos == find(var_expr, <<":", "-">>) IN
    IF colon_pos.some
    THEN LET value == env_var(env, SubSeq(var_expr, 1, colon_pos.val)) IN
         IF value.ok THEN value.val
         ELSE Drop(var_expr, colon_pos.val + 2)
    ELSE LET value == env_var(env, var_expr) IN
         IF value.ok THEN value.val
         ELSE <<"$", "{">> \o var_expr \o <<"}">>

\* the text that expand_env_vars puts for a closed expression
Substitute(env, var_expr) ==
    LET colon_pos == find(var_expr, <<":", "-">>) IN
    IF colon_pos.some
    THEN LET value == env_var(env, SubSeq(var_expr, 1, colon_pos.val)) IN
         IF value.ok /\ value.val # <<>> THEN value.val
         ELSE Drop(var_expr, colon_pos.val + 2)
    ELSE LET value == env_var(env, var_expr) IN
         IF value.ok THEN value.val
         ELSE <<"$", "{">> \o var_expr \o <<"}">>

\* the outer loop of expand_env_vars over the characters left
RECURSIVE ExpandLoop(_, _, _)
ExpandLoop(env, chars, result) ==
    IF chars = <<>> THEN result
    ELSE IF Head(chars) = "$" /\ Len(chars) >= 2 /\ chars[2] = "{"
    THEN LET taken == TakeExpr(Drop(chars, 2), <<>>) IN
         IF taken.found_closing
         THEN ExpandLoop(env, taken.chars,
                         result \o Substitute(env, taken.var_expr))
         ELSE ExpandLoop(env, taken.chars,
                         result \o <<"$", "{">> \o taken.var_expr)
    ELSE ExpandLoop(env, Tail(chars), Append(result, Head(chars)))

expand_env_vars(env, self) == ExpandLoop(env, self, <<>>)

(***************************************************************************)
(* SpecExpand: a text is expanded in a process where the variable A is not *)
(* set, is set to the empty text, or is set to the text `${A}`.            *)
(***************************************************************************)
\* a text drawn is made of at most MaxParts parts
MaxParts == 5

Parts ==
    {<<"$", "{">>, <<"}">>, <<":", "-">>, <<":">>, <<"$">>, <<"A">>, <<"x">>}

RECURSIVE Templates(_)
Templates(n) ==
    IF n = 0 THEN {<<>>}
    ELSE Templates(n - 1) \cup
         {t \o q : t \in Templates(n - 1), q \in Parts}

ProcessEnvs == {Absent, Some(<<>>), Some(<<"$", "{", "A", "}">>)}

ExpandInit ==
    /\ template \in Templates(MaxParts)
    /\ processEnv \in ProcessEnvs
    /\ expanded = None
    /\ vpc = "new"
    /\ MergeIdle
    /\ BuilderIdle
    /\ PathIdle
    /\ BuildIdle
    /\ ParseIdle
    /\ EnvIdle
    /\ FileIdle
    /\ WatchIdle

\* the text is expanded
DoExpand ==
    /\ vpc = "new"
    /\ expanded' = expand_env_vars(processEnv, template)
    /\ vpc' = "done"
    /\ UNCHANGED <<template, processEnv>>
    /\ UNCHANGED <<mergeVars, builderVars, pathVars, buildVars, parseVars,
                   envStateVars, fileVars, watchVars>>

ExpandNext == DoExpand

SpecExpand == ExpandInit /\ [][ExpandNext]_vars

(***************************************************************************)
(* Claims about the merge (SpecMerge).                                     *)
(***************************************************************************)
\* the merge as C3 states it: the union of the keys, a key of both sides
\* merged the same way when both values are tables and taking the right
\* value in every other case
RECURSIVE UnionMerge(_, _)
UnionMerge(l, r) ==
    Table([k \in (DOMAIN l.map) \cup (DOMAIN r.map) |->
        IF k \notin DOMAIN r.map THEN l.map[k]
        ELSE IF k \notin DOMAIN l.map THEN r.map[k]
        ELSE IF IsTable(l.map[k]) /\ IsTable(r.map[k])
             THEN UnionMerge(l.map[k], r.map[k])
             ELSE r.map[k]])

\* the same, but an empty table on the right leaves the left value
RECURSIVE UnionMergeKeepingUnderEmpty(_, _)
UnionMergeKeepingUnderEmpty(l, r) ==
    Table([k \in (DOMAIN l.map) \cup (DOMAIN r.map) |->
        IF k \notin DOMAIN r.map THEN l.map[k]
        ELSE IF k \notin DOMAIN l.map THEN r.map[k]
        ELSE IF IsTable(l.map[k]) /\ IsTable(r.map[k])
             THEN UnionMergeKeepingUnderEmpty(l.map[k], r.map[k])
             ELSE IF r.map[k] = Table(EmptyMap) THEN l.map[k]
             ELSE r.map[k]])

MergedAB == mpc \in {"left2", "right1", "right2", "done"}

C4_ArrayReplaces ==
    MergedAB =>
        \A k \in DOMAIN B.map : IsArray(B.map[k]) => AB.map[k] = B.map[k]

\* a longer array of other elements is replaced by a shorter one
C4_Witness ==
    /\ MergedAB
    /\ \E k \in DOMAIN A.map \cap DOMAIN B.map :
          /\ IsArray(A.map[k]) /\ IsArray(B.map[k])
          /\ Len(A.map[k].array) > Len(B.map[k].array)
          /\ AB.map[k] = B.map[k]

\* C5 as stated: merging B into A and then C gives the same table as
\* merging C into B and then the result into A.
C5_Associative == mpc = "done" => AB_C = A_BC

\* at some key path y holds a value that is not a table where z holds a
\* table that is not empty
RECURSIVE Clash(_, _)
Clash(y, z) ==
    IF IsTable(y)
    THEN /\ IsTable(z)
         /\ \E k \in DOMAIN y.map \cap DOMAIN z.map : Clash(y.map[k], z.map[k])
    ELSE IsTable(z) /\ z.map # EmptyMap

\* C5 amended: the two orders give the same table unless, at some key
\* path, B holds a value that is not a table and C a table that is not
\* empty.
C5_AssociativeUnlessClash == (mpc = "done" /\ ~Clash(B, C)) => AB_C = A_BC

\* three different tables under one key are merged in both orders
C5_Witness ==
    /\ mpc = "done"
    /\ ~Clash(B, C)
    /\ \E k \in DOMAIN A.map \cap DOMAIN B.map \cap DOMAIN C.map :
          /\ IsTable(A.map[k]) /\ IsTable(B.map[k]) /\ IsTable(C.map[k])
          /\ A.map[k] # B.map[k] /\ B.map[k] # C.map[k] /\ A.map[k] # C.map[k]
    /\ AB_C # A /\ AB_C # B /\ AB_C # C

\* at every key path where r holds an empty table and l holds a value, m
\* holds l's value
RECURSIVE KeptUnderEmpty(_, _, _)
KeptUnderEmpty(l, r, m) ==
    \A k \in DOMAIN l.map \cap DOMAIN r.map :
        IF r.map[k] = Table(EmptyMap)
        THEN k \in DOMAIN m.map /\ m.map[k] = l.map[k]
        ELSE (IsTable(l.map[k]) /\ IsTable(r.map[k]))
                => /\ k \in DOMAIN m.map
                   /\ IsTable(m.map[k])
                   /\ KeptUnderEmpty(l.map[k], r.map[k], m.map[k])

\* C9: merging a table whose value at a key is an empty table leaves what
\* was at that key: an integer stays, a table keeps all its entries.
C9_EmptyTableKeeps == MergedAB => KeptUnderEmpty(A, B, AB)

\* an integer under an empty table at the top, and under one a level down;
\* a table that is not empty under an empty table
C9_Witness ==
    /\ MergedAB
    /\ "a" \in DOMAIN A.map /\ "a" \in DOMAIN B.map
    /\ "b" \in DOMAIN A.map /\ "b" \in DOMAIN B.map
    /\ \/ /\ A.map["a"] = I64(1) /\ B.map["a"] = Table(EmptyMap)
          /\ A.map["b"] = Single("a", I64(2)) /\ B.map["b"] = Table(EmptyMap)
          /\ AB = A
       \/ /\ A.map["a"] = Single("a", I64(2))
          /\ B.map["a"] = Single("a", Table(EmptyMap))
          /\ AB.map["a"] = Single("a", I64(2))
          /\ B.map["b"] = Table(EmptyMap)

(***************************************************************************)
(* Claims about the builder (Spec).                                        *)
(***************************************************************************)
\* the sources that give key k a value, by position of registration
Having(k) == {i \in 1..Len(sources) : k \in DOMAIN sources[i].map}

Last(is) == CHOOSE i \in is : \A j \in is : j <= i

Overridden(k) == k \in DOMAIN overrides.map

\* C1: with no override on a key, the built configuration holds for it the
\* value of the source registered last among those that give it one, so a
\* key of only one source keeps that source's value and of two sources the
\* later one wins, in either order of registration.
C1_LaterSourceWins ==
    bpc = "built" =>
        \A k \in Keys :
            (~Overridden(k) /\ Having(k) # {}) =>
                /\ k \in DOMAIN config.map
                /\ config.map[k] = sources[Last(Having(k))].map[k]

\* two sources give one key different values and only one of them gives
\* the other key
C1_Witness ==
    /\ bpc = "built"
    /\ Len(sources) = 2
    /\ \E k \in Keys :
          /\ ~Overridden(k)
          /\ Having(k) = {1, 2}
          /\ sources[1].map[k] # sources[2].map[k]
          /\ config.map[k] = sources[2].map[k]
    /\ \E k \in Keys :
          /\ ~Overridden(k)
          /\ Cardinality(Having(k)) = 1
          /\ k \in DOMAIN config.map

\* C2: for every key the built configuration holds the override when there
\* is one, else the value of the last source that gives one, else the
\* default, else nothing, whatever the order of the builder calls.
C2_LayerOrder ==
    bpc = "built" =>
        \A k \in Keys :
            IF Overridden(k)
            THEN k \in DOMAIN config.map /\ config.map[k] = overrides.map[k]
            ELSE IF Having(k) # {}
                 THEN /\ k \in DOMAIN config.map
                      /\ config.map[k] = sources[Last(Having(k))].map[k]
                 ELSE IF k \in DOMAIN defaults.map
                      THEN /\ k \in DOMAIN config.map
                           /\ config.map[k] = defaults.map[k]
                      ELSE k \notin DOMAIN config.map

\* an override set before a source was added beats that source, and a
\* default set after a source was added loses to it
C2_Witness ==
    /\ bpc = "built"
    /\ overrideFirst
    /\ defaultLate
    /\ \E k \in Keys :
          /\ Overridden(k) /\ Having(k) # {}
          /\ overrides.map[k] # sources[Last(Having(k))].map[k]
    /\ \E k \in Keys :
          /\ ~Overridden(k) /\ Having(k) # {} /\ k \in DOMAIN defaults.map
          /\ defaults.map[k] # sources[Last(Having(k))].map[k]

C7_AlwaysASlot == ppc \in {"forced", "back"} => res # None

\* C8: set of a table at a path that held a table keeps, for every form of
\* the path, the entries under the keys the incoming table does not have.
C8_TableSetMerges ==
    (ppc = "set" /\ IsTable(val)) =>
        LET old == get(expr, pre)
            new == get(expr, root)
        IN  (old # None /\ IsTable(old)) =>
                /\ new # None
                /\ IsTable(new)
                /\ \A k \in (DOMAIN old.map) \ (DOMAIN val.map) :
                      k \in DOMAIN new.map /\ new.map[k] = old.map[k]

\* C10: on an array of N elements get with index -k, 1 <= k <= N, returns
\* the element get returns with index N - k, and get returns absence for an
\* index of N or more and of -(N + 1) or less.
C10_NegativeIndex ==
    (ppc = "got" /\ expr.tag = "Subscript") =>
        LET parent == get(expr.expr, pre) IN
        (parent # None /\ IsArray(parent)) =>
            LET N == Len(parent.array)
                i == expr.index
            IN  /\ (i < 0 /\ 0 - i <= N) =>
                      /\ res = parent.array[N + i + 1]
                      /\ res = get(Subscript(expr.expr, N + i), pre)
                /\ (i >= N \/ 0 - i > N) => res = None

\* index -N reads the first of N >= 2 elements, which is not the last
C10_Witness ==
    /\ ppc = "got"
    /\ expr.tag = "Subscript"
    /\ LET parent == get(expr.expr, pre) IN
       /\ parent # None
       /\ IsArray(parent)
       /\ Len(parent.array) >= 2
       /\ expr.index = 0 - Len(parent.array)
       /\ res = parent.array[1]
       /\ res # parent.array[Len(parent.array)]

\* C11: set of a path with a key as its last step, whose parent holds a
\* value that is neither a table nor absent, puts in place of that value a
\* table holding only the new key with the value set; the rest of the tree
\* stays ({a: 5}, set a.b = 10, gives exactly {a: {b: 10}}).
C11_ScalarBecomesTable ==
    (ppc = "set" /\ expr.tag = "Child") =>
        LET old == get(expr.expr, pre) IN
        (old # None /\ ~IsTable(old)) =>
            /\ get(expr.expr, root) = Single(expr.key, val)
            /\ expr.expr.tag = "Identifier" =>
                  root = Table(MapInsert(pre.map, expr.expr.id,
                                         Single(expr.key, val)))

\* {a: 1}, set a.b = 2, gives {a: {b: 2}}
C11_Witness ==
    /\ ppc = "set"
    /\ pre = Single("a", I64(1))
    /\ expr = Child(Identifier("a"), "b")
    /\ val = I64(2)
    /\ root = Single("a", Single("b", I64(2)))

C14_GetReadsOnly ==
    ppc = "got" =>
        /\ root = pre
        /\ expr.tag = "Identifier" =>
              ((~IsTable(pre) \/ expr.id \notin DOMAIN pre.map) => res = None)
        /\ expr.tag = "Child" =>
              LET parent == get(expr.expr, pre) IN
              ((parent = None \/ ~IsTable(parent)
                    \/ expr.key \notin DOMAIN parent.map) => res = None)
        /\ expr.tag = "Subscript" =>
              LET parent == get(expr.expr, pre) IN
              ((parent = None \/ ~IsArray(parent)
                    \/ expr.index >= Len(parent.array)
                    \/ 0 - expr.index > Len(parent.array)) => res = None)

\* an index step past the end of an array of a root, and a key step on a
\* root that is not a table
C14_Witness ==
    /\ ppc = "got"
    /\ res = None
    /\ root = pre
    /\ \/ /\ expr.tag = "Subscript"
          /\ LET parent == get(expr.expr, pre) IN
             parent # None /\ IsArray(parent)
                 /\ parent.array # <<>> /\ expr.index >= Len(parent.array)
       \/ ~IsTable(pre)

(***************************************************************************)
(* Claims about the build (SpecBuild).                                     *)
(***************************************************************************)
\* the registered sources whose collection fails, and the first of a set
Failing == {i \in 1..Len(registered) : ~collect(registered[i]).ok}

First(is) == CHOOSE i \in is : \A j \in is : i <= j

UpTo(n) == [i \in 1..n |-> i]

\* C15: when the collection of a source fails, build returns the error of
\* the first source that fails and no configuration; no source registered
\* after that one is collected, and what was merged before is dropped.
C15_FailFast ==
    Failing # {} =>
        LET f == First(Failing) IN
        /\ \A j \in 1..Len(started) : started[j] <= f
        /\ \A j \in 1..Len(merged) : merged[j] < f
        /\ xpc = "done" =>
              /\ ~built.ok
              /\ "config" \notin DOMAIN built
              /\ built.error = collect(registered[f]).error
              /\ started = UpTo(f)
              /\ merged = UpTo(f - 1)
              /\ buildCache = None

\* a build whose first source fails and whose second would collect
C15_Witness ==
    /\ xpc = "done"
    /\ Len(registered) = 2
    /\ Failing = {1}
    /\ ~built.ok
    /\ started = <<1>>

\* C16: with asynchronous and other sources in one builder, the sources
\* are collected one at a time in the order of registration, each merged
\* before the next begins, and the configuration built holds for every key
\* the value of the last registered source that has the key, whichever
\* sources are asynchronous and however long their collection is pending.
C16_RegistrationOrder ==
    /\ started = UpTo(Len(started))
    /\ merged = UpTo(Len(merged))
    /\ Len(merged) <= Len(started)
    /\ Len(started) <= Len(merged) + 1
    /\ xpc = "awaiting" =>
          /\ Len(started) = Len(merged) + 1
          /\ registered[started[Len(started)]].async
    /\ (xpc = "done" /\ built.ok) =>
          \A k \in Keys :
              LET has == {i \in 1..Len(registered) :
                             k \in DOMAIN collect(registered[i]).map}
              IN  IF has = {} THEN k \notin DOMAIN built.config.map
                  ELSE /\ k \in DOMAIN built.config.map
                       /\ built.config.map[k] =
                              collect(registered[Last(has)]).map[k]

\* an asynchronous source polled while pending, then a file source with
\* another value for the same key, which is the value built
C16_Witness ==
    /\ xpc = "done"
    /\ built.ok
    /\ polls > 0
    /\ Len(registered) = 2
    /\ registered[1].async
    /\ ~registered[2].async
    /\ \E k \in Keys :
          /\ k \in DOMAIN collect(registered[1]).map
          /\ k \in DOMAIN collect(registered[2]).map
          /\ collect(registered[1]).map[k] # collect(registered[2]).map[k]
          /\ built.config.map[k] = collect(registered[2]).map[k]

\* a file source that is found and whose text parses to no value or to a
\* value that is not an object
NonTableRoot(source) ==
    /\ ~source.async
    /\ source.file.found
    /\ \/ source.file.text.text = "empty"
       \/ /\ source.file.text.text = "json"
          /\ source.file.text.json.json # "Object"

\* C17: a file source whose parsed root is not a table is never merged and
\* makes build fail; when it is the first source to fail, the error is a
\* FileParse error saying that a map was expected and naming the kind
\* found, Nil for a text without a value.
C17_RootNotTable ==
    \A i \in 1..Len(registered) :
        NonTableRoot(registered[i]) =>
            /\ \A j \in 1..Len(merged) : merged[j] # i
            /\ xpc = "done" =>
                  /\ ~built.ok
                  /\ i = First(Failing) =>
                        /\ built.error.kind = "FileParse"
                        /\ built.error.cause.expected = "a map"
                        /\ built.error.cause.unexpected # "Table"
                        /\ registered[i].file.text.text = "empty" =>
                              built.error.cause.unexpected = "Nil"

\* the build of a single file source with an empty text
C17_Witness ==
    /\ xpc = "done"
    /\ registered = <<FileSource(Found(EmptyText))>>
    /\ ~built.ok
    /\ built.error.kind = "FileParse"
    /\ built.error.cause = [expected |-> "a map", unexpected |-> "Nil"]

(***************************************************************************)
(* Claims about the path parser (SpecParse).                               *)
(***************************************************************************)
\* the grammar of a path, read one character at a time: the state after
\* character c in state q, with ic the characters of an identifier
Delta(q, c, ic) ==
    CASE q = "start" -> IF c \in ic THEN "id" ELSE "dead"
      [] q = "id" ->
            IF c \in ic THEN "id"
            ELSE IF c = "." THEN "dot"
            ELSE IF c = "[" THEN "open" ELSE "dead"
      [] q = "dot" -> IF c \in ic THEN "id" ELSE "dead"
      [] q = "open" ->
            IF c = " " THEN "open"
            ELSE IF c = "-" THEN "neg"
            ELSE IF c \in Digits THEN "num" ELSE "dead"
      [] q = "neg" -> IF c \in Digits THEN "num" ELSE "dead"
      [] q = "num" ->
            IF c \in Digits THEN "num"
            ELSE IF c = " " THEN "trail"
            ELSE IF c = "]" THEN "closed" ELSE "dead"
      [] q = "trail" ->
            IF c = " " THEN "trail"
            ELSE IF c = "]" THEN "closed" ELSE "dead"
      [] q = "closed" ->
            IF c = "." THEN "dot"
            ELSE IF c = "[" THEN "open" ELSE "dead"
      [] q = "dead" -> "dead"

RECURSIVE Reads(_, _, _)
Reads(q, text, ic) ==
    IF text = <<>> THEN q
    ELSE Reads(Delta(q, Head(text), ic), Tail(text), ic)

\* the whole text is an identifier followed by postfixes
IsPath(text, ic) == Reads("start", text, ic) \in {"id", "closed"}

AsciiIdentChars == Letters \cup Digits \cup {"_", "-"}

\* the number of postfixes of an expression
RECURSIVE Depth(_)
Depth(e) == IF e.tag = "Identifier" THEN 0 ELSE 1 + Depth(e.expr)

\* C18: from_str accepts a text exactly when the whole of it is an
\* identifier followed by any number of `.identifier` and `[integer]`
\* postfixes, and then gives an expression with one step for each postfix;
\* every other text is a parse error, also when a prefix of it is a path.
C18_WholeInput ==
    rpc = "parsed" =>
        /\ parsed.ok <=> IsPath(input, AsciiIdentChars)
        /\ parsed.ok =>
              Depth(parsed.val)
                  = Cardinality({j \in 1..Len(input) : input[j] \in {".", "["}})

\* a path followed by a character of no postfix is an error met after that
\* character, as the test for "a!b" expects
C18_Witness ==
    /\ rpc = "parsed"
    /\ input = <<"a", "!", "b">>
    /\ IsPath(<<"a">>, AsciiIdentChars)
    /\ parsed = [ok |-> FALSE, label |-> "postfix", offset |-> 2]

\* C19 as stated: a text that is a path when the letters that are not ASCII
\* count as characters of an identifier parses.
C19_UnicodeIdent ==
    rpc = "parsed" =>
        (IsPath(input, AsciiIdentChars \cup NonAsciiLetters) => parsed.ok)

\* C19 amended: the characters of an identifier are the ASCII letters, the
\* digits, `_` and `-`; a text with a letter that is not ASCII is a parse
\* error, and a text that is a path of such identifiers parses.
C19_AsciiIdent ==
    rpc = "parsed" =>
        /\ (\E j \in 1..Len(input) : input[j] \in NonAsciiLetters) => ~parsed.ok
        /\ IsPath(input, AsciiIdentChars) => parsed.ok

\* an identifier of an ASCII letter and a letter that is not ASCII
C19_Witness ==
    /\ rpc = "parsed"
    /\ input = <<"a", "é">>
    /\ ~parsed.ok

(***************************************************************************)
(* Claims about the Environment source (SpecEnv).                          *)
(***************************************************************************)
\* the variables as pairs of a path, the segments of the lower-cased name
\* between the separators, and the value collected for it
PairOf(v) ==
    [path |-> split(to_lowercase(v.key), environment.separator.val),
     value |-> IF environment.try_parsing THEN I64(DecimalValue(v.value))
               ELSE String(v.value)]

\* the pairs of ps whose path begins with h, without that beginning
Under(ps, h) ==
    {[path |-> Tail(p.path), value |-> p.value] :
        p \in {q \in ps : Head(q.path) = h}}

Heads(ps) == {Head(p.path) : p \in ps}

\* no path ends where another goes on or ends with another value, and the
\* paths that go on from one place do so with list positions only or with
\* keys only
RECURSIVE Compatible(_)
Compatible(ps) ==
    IF \E p \in ps : p.path = <<>> THEN Cardinality(ps) = 1
    ELSE /\ \/ \A h \in Heads(ps) : IsDecimal(h)
            \/ \A h \in Heads(ps) : ~IsDecimal(h)
         /\ \A h \in Heads(ps) : Compatible(Under(ps, h))

\* the tree the pairs describe: a list where the paths go on with
\* positions, as long as the greatest of them asks and Nil where no path
\* goes, a table where they go on with keys
RECURSIVE Described(_)
Described(ps) ==
    IF \E p \in ps : p.path = <<>> THEN (CHOOSE p \in ps : TRUE).value
    ELSE IF \A h \in Heads(ps) : IsDecimal(h)
    THEN LET at == {DecimalValue(h) : h \in Heads(ps)} IN
         Array([j \in 1..(Last(at) + 1) |->
                   IF j - 1 \in at
                   THEN Described(UNION {Under(ps, h) :
                            h \in {g \in Heads(ps) : DecimalValue(g) = j - 1}})
                   ELSE Nil])
    ELSE Table([h \in Heads(ps) |-> Described(Under(ps, h))])

\* the first segment of a name is a key whatever it looks like
DescribedRoot(ps) == [h \in Heads(ps) |-> Described(Under(ps, h))]

PrefixPattern ==
    to_lowercase(environment.prefix.val \o
        (IF environment.prefix_separator.some
         THEN environment.prefix_separator.val
         ELSE IF environment.separator.some THEN environment.separator.val
         ELSE <<"_">>))

\* the variable is neither ignored for its empty value nor dropped by the
\* prefix filter
Accepted(v) ==
    /\ ~(environment.ignore_empty /\ v.value = <<>>)
    /\ environment.prefix.some => starts_with(to_lowercase(v.key), PrefixPattern)

\* the key of an accepted variable after the prefix is stripped and the
\* separator replaced
KeyAfter(v) ==
    LET rest == IF environment.prefix.some
                THEN Drop(to_lowercase(v.key), Len(PrefixPattern))
                ELSE to_lowercase(v.key)
    IN  IF environment.separator.some
        THEN replace(rest, environment.separator.val, <<".">>)
        ELSE rest

\* the value is a text: no boolean, no integer and no float
IsText(value) ==
    /\ ~parse_bool(to_lowercase(value)).ok
    /\ ~parse_i64(value).ok
    /\ ~parse_f64(value).ok

\* the value at the end of the one path of a tree of single-entry tables
RECURSIVE Leaf(_)
Leaf(value) ==
    IF IsTable(value) /\ Cardinality(DOMAIN value.map) = 1
    THEN Leaf(value.map[CHOOSE k \in DOMAIN value.map : TRUE])
    ELSE value

\* the texts put together again with the separator between them
RECURSIVE Join(_, _)
Join(texts, sep) ==
    IF Len(texts) = 1 THEN texts[1]
    ELSE texts[1] \o sep \o Join(Tail(texts), sep)

\* list is the list of the texts between the separators of value
IsSplitOf(list, value, sep) ==
    /\ IsArray(list)
    /\ list.array # <<>>
    /\ \A j \in 1..Len(list.array) :
          /\ list.array[j].kind = "String"
          /\ \A i \in 1..Len(list.array[j].s) : <<list.array[j].s[i]>> # sep
    /\ Join([j \in 1..Len(list.array) |-> list.array[j].s], sep) = value

\* C21: with try-parsing on, a list separator and list-parse keys, a text
\* variable is split into a list of strings exactly when its key, after
\* the prefix is stripped and the separator replaced, is a list-parse key;
\* any other text variable keeps its whole value as one String.
C21_OnlyRegisteredSplit ==
    (/\ epc = "done"
     /\ environment.try_parsing
     /\ environment.list_separator.some
     /\ environment.list_parse_keys.some) =>
        \A v \in envVars : (Accepted(v) /\ IsText(v.value)) =>
            /\ collected.ok
            /\ IF KeyAfter(v) \in environment.list_parse_keys.val
               THEN IsSplitOf(Leaf(Table(collected.map)), v.value,
                              environment.list_separator.val)
               ELSE Leaf(Table(collected.map)) = String(v.value)

\* A_B_L=a,b with prefix A, separator `_` and list-parse key b.l is
\* collected as the list [a, b]
C21_Witness ==
    /\ epc = "done"
    /\ environment.try_parsing
    /\ environment.list_separator.some
    /\ environment.list_parse_keys.some
    /\ environment.prefix.some
    /\ environment.separator.some
    /\ \E v \in envVars :
          /\ Accepted(v)
          /\ v.value = <<"a", ",", "b">>
          /\ KeyAfter(v) = <<"b", ".", "l">>
    /\ collected.ok
    /\ Leaf(Table(collected.map)) = Array(<<String(<<"a">>), String(<<"b">>)>>)

\* a list separator is set and applies to the key of the variable
ListApplies(v) ==
    /\ environment.list_separator.some
    /\ environment.list_parse_keys.some =>
          KeyAfter(v) \in environment.list_parse_keys.val

\* the digits of a text after its sign, if it has one
Unsigned(value) ==
    IF value # <<>> /\ Head(value) \in {"+", "-"} THEN Tail(value) ELSE value

\* the text is an integer in decimal notation
IsInteger(value) == IsDecimal(Unsigned(value))

IntegerOf(value) ==
    IF Head(value) = "-" THEN 0 - DecimalValue(Unsigned(value))
    ELSE DecimalValue(Unsigned(value))

\* the text is a number with a decimal point
IsFraction(value) ==
    \E j \in 1..Len(Unsigned(value)) :
        /\ Unsigned(value)[j] = "."
        /\ Len(Unsigned(value)) > 1
        /\ \A i \in 1..Len(Unsigned(value)) :
              i # j => Unsigned(value)[i] \in DecimalDigits

\* C22: with try-parsing on the value of a variable is a boolean if it
\* reads as one, else an integer if it reads as one, else a float if it
\* reads as one, else a list if a list separator applies to its key, and
\* else a String; with try-parsing off it is a String.
C22_FirstParseWins ==
    epc = "done" =>
        \A v \in envVars : Accepted(v) =>
            LET leaf == Leaf(Table(collected.map)) IN
            /\ collected.ok
            /\ IF ~environment.try_parsing THEN leaf = String(v.value)
               ELSE IF to_lowercase(v.value) = <<"t", "r", "u", "e">>
               THEN leaf = Boolean(TRUE)
               ELSE IF to_lowercase(v.value) = <<"f", "a", "l", "s", "e">>
               THEN leaf = Boolean(FALSE)
               ELSE IF IsInteger(v.value) THEN leaf = I64(IntegerOf(v.value))
               ELSE IF IsFraction(v.value) THEN leaf = Float(v.value)
               ELSE IF ListApplies(v)
               THEN IsSplitOf(leaf, v.value, environment.list_separator.val)
               ELSE leaf = String(v.value)

\* with the list separator `.` for every key the value 1.5 is collected
\* as a float, not as the list [1, 5]
C22_Witness ==
    /\ epc = "done"
    /\ environment.try_parsing
    /\ environment.list_separator = Some(<<".">>)
    /\ ~environment.list_parse_keys.some
    /\ \E v \in envVars : Accepted(v) /\ v.value = <<"1", ".", "5">>
    /\ collected.ok
    /\ Leaf(Table(collected.map)) = Float(<<"1", ".", "5">>)

\* the keys from the root down a tree of single-entry tables
RECURSIVE PathOf(_)
PathOf(value) ==
    IF IsTable(value) /\ Cardinality(DOMAIN value.map) = 1
    THEN LET k == CHOOSE j \in DOMAIN value.map : TRUE IN
         <<k>> \o PathOf(value.map[k])
    ELSE <<>>

\* the segments of the key that is left of an accepted variable
Segments(v) == split(KeyAfter(v), <<".">>)

\* C23 as stated: with keep_prefix the prefix stripped from the name is a
\* path segment of its own in front of the segments of the rest of the
\* key.
C23_PrefixSeparate ==
    (epc = "done" /\ environment.keep_prefix /\ environment.prefix.some) =>
        \A v \in envVars : Accepted(v) =>
            /\ collected.ok
            /\ PathOf(Table(collected.map)) =
                  <<to_lowercase(environment.prefix.val)>> \o Segments(v)

\* C23 as the code has it: with keep_prefix the prefix and the prefix
\* separator, in lower case, are put in front of the first segment of the
\* rest of the key, in one key with it; the segments after the first
\* follow below that key.
C23_PrefixFused ==
    (epc = "done" /\ environment.keep_prefix /\ environment.prefix.some) =>
        \A v \in envVars : Accepted(v) =>
            /\ collected.ok
            /\ PathOf(Table(collected.map)) =
                  <<PrefixPattern \o Head(Segments(v))>> \o Tail(Segments(v))

\* A_B_L with prefix A, separator `_` and keep_prefix is collected under
\* the key a_b, which holds l
C23_Witness ==
    /\ epc = "done"
    /\ environment.keep_prefix
    /\ environment.prefix.some
    /\ environment.separator.some
    /\ ~environment.prefix_separator.some
    /\ \E v \in envVars :
          Accepted(v) /\ v.key = <<"A", "_", "B", "_", "L">>
    /\ collected.ok
    /\ PathOf(Table(collected.map)) = <<(<<"a", "_", "b">>), (<<"l">>)>>

(***************************************************************************)
(* Claims about the variables of the process (SpecEnvOs).                  *)
(***************************************************************************)
\* the name of the variable is valid Unicode and passes the prefix filter
PassesFilter(v) ==
    /\ v.key.unicode
    /\ environment.prefix.some =>
          starts_with(to_lowercase(v.key.s), PrefixPattern)

\* C24: collect on the variables of the process does not panic; a
\* variable whose name is not valid Unicode is skipped, and a variable
\* whose value is not valid Unicode makes collect return an error that
\* names it, unless the prefix filter drops the variable first.
C24_NoPanicOnNonUnicode ==
    epc \in {"done", "panicked"} =>
        /\ "panic" \notin DOMAIN collected
        /\ IF \E v \in envVars : PassesFilter(v) /\ ~v.value.unicode
           THEN /\ ~collected.ok
                /\ \E v \in envVars :
                      /\ PassesFilter(v)
                      /\ ~v.value.unicode
                      /\ collected.variable = v.key.s
           ELSE collected.ok

(***************************************************************************)
(* Claims about the file source on disk (SpecFind).                        *)
(***************************************************************************)
\* the names made of the name given, a dot and an extension of the format
CandidatesOf(f) ==
    {fileName \o <<registry[f][j]>> : j \in 1..Len(registry[f])}

\* C25: a name that is no file, given without a format, resolves to a
\* file named by the whole name given, a dot and an extension of a
\* registered format, of which that format is returned; where no such
\* file exists the error is `not found`.  The extension-like text of the
\* name given is never replaced.
C25_ExtensionsAppended ==
    (fpc = "done" /\ fileName \notin disk /\ ~formatHint.some) =>
        IF \A f \in DOMAIN registry : CandidatesOf(f) \cap disk = {}
        THEN located = [ok |-> FALSE, message |-> "not found"]
        ELSE /\ located.ok
             /\ located.filename \in CandidatesOf(located.format) \cap disk

\* file.default is no file, file.default.json and file.json are: the file
\* found is file.default.json
C25_Witness ==
    /\ fpc = "done"
    /\ ~formatHint.some
    /\ fileName = <<"file", "default">>
    /\ fileName \notin disk
    /\ <<"file", "default", "json">> \in disk
    /\ <<"file", "json">> \in disk
    /\ located = FoundFile(<<"file", "default", "json">>, "Json")

(***************************************************************************)
(* Claims about the watch example (SpecWatch).                             *)
(***************************************************************************)
\* the configuration is the one built from a version the file has had
Complete(c) == \E version \in 1..(changes + 1) : c = ConfigOf(version)

\* what a reader can see is whole: the holder while no thread writes it,
\* every clone made of it and every configuration shown
SeenWhole ==
    /\ ~rwlock.writer => Complete(holder)
    /\ \A t \in Threads :
          (PcOf(t) = "clone" /\ reading[t].left = {}) =>
              Complete(reading[t].config)
    /\ \A c \in shown : Complete(c)

\* the new configuration is built while the lock is not held for writing
BuiltFirst == wpc \in {"load", "write", "panicked"} => ~rwlock.writer

\* the holder changes under the write lock only, and not in the step in
\* which the build fails
WrittenUnderLock ==
    /\ holder' # holder => (rwlock.writer /\ wpc = "store")
    /\ wpc' = "panicked" => holder' = holder

\* C26: a reload builds the new configuration before it takes the lock
\* and replaces the holder under the write lock; a reader sees the whole
\* old or the whole new configuration, never a mix of both; a build that
\* fails leaves the holder as it was.
C26_AtomicReload ==
    /\ [](SeenWhole /\ BuiltFirst)
    /\ [][WrittenUnderLock]_vars

\* the file was written with new values and then with a text that does
\* not parse: the first and the second configuration were shown, the
\* failed build left the second in the holder
C26_Witness ==
    /\ wpc = "panicked"
    /\ settingsToml = BrokenToml
    /\ holder = ConfigOf(2)
    /\ ConfigOf(1) \in shown
    /\ ConfigOf(2) \in shown

(***************************************************************************)
(* Claims about the expansion of variables in a text (SpecExpand).         *)
(***************************************************************************)
Least(is) == CHOOSE i \in is : \A j \in is : i <= j

\* the places of a text where `${` begins
Opens(t) == {i \in 1..(Len(t) - 1) : t[i] = "$" /\ t[i + 1] = "{"}

\* the places of the closing braces after the `${` at place i
Closes(t, i) == {j \in (i + 2)..Len(t) : t[j] = "}"}

\* the places of an expression where `:-` begins
Defaults(e) == {i \in 1..(Len(e) - 1) : e[i] = ":" /\ e[i + 1] = "-"}

\* the variable is set
IsSet(var_name) == processEnv.some /\ var_name = <<"A">>

\* what stands for the expression between `${` and `}`
Replacement(e) ==
    IF Defaults(e) = {}
    THEN IF IsSet(e) THEN processEnv.val
         ELSE <<"$", "{">> \o e \o <<"}">>
    ELSE LET at == Least(Defaults(e)) IN
         IF IsSet(SubSeq(e, 1, at - 1)) /\ processEnv.val # <<>>
         THEN processEnv.val
         ELSE SubSeq(e, at + 2, Len(e))

\* the text with every closed expression, from the left, replaced
RECURSIVE Expected(_)
Expected(t) ==
    IF Opens(t) = {} THEN t
    ELSE LET open == Least(Opens(t)) IN
         IF Closes(t, open) = {} THEN t
         ELSE LET close == Least(Closes(t, open)) IN
              SubSeq(t, 1, open - 1)
                  \o Replacement(SubSeq(t, open + 2, close - 1))
                  \o Expected(SubSeq(t, close + 1, Len(t)))

\* C27: reading from the left, every `${` with a `}` after it is an
\* expression that ends at the first such `}`.  `${NAME}` is replaced by
\* the value of NAME where NAME is set and left as written where it is
\* not; `${NAME:-default}` is replaced by the value of NAME where NAME is
\* set and not empty, and else by the text after the first `:-`; a `${`
\* that is not closed and all other text are copied as they are.  The
\* values put in are not expanded again.
C27_Expansion == vpc = "done" => expanded = Expected(template)

\* `${A:-x}` where A is set to the empty text expands to `x`
C27_Witness ==
    /\ vpc = "done"
    /\ template = <<"$", "{", "A", ":", "-", "x", "}">>
    /\ processEnv = Some(<<>>)
    /\ expanded = <<"x">>

(***************************************************************************)
(* The frame of set (SpecPath).                                            *)
(***************************************************************************)
\* the place a path without negative indices names
RECURSIVE PlaceOf(_)
PlaceOf(e) ==
    IF e.tag = "Identifier" THEN <<KeyStep(e.id)>>
    ELSE IF e.tag = "Child" THEN Append(PlaceOf(e.expr), KeyStep(e.key))
    ELSE Append(PlaceOf(e.expr), IndexStep(e.index))

RECURSIVE NonNegative(_)
NonNegative(e) ==
    \/ e.tag = "Identifier"
    \/ /\ NonNegative(e.expr)
       /\ e.tag = "Subscript" => e.index >= 0

\* every node the path goes through before its last step is in the tree
\* and is what the next step needs: a table for a key, an array for an
\* index
RECURSIVE Shaped(_, _)
Shaped(e, tree) ==
    IF e.tag = "Identifier" THEN IsTable(tree)
    ELSE /\ Shaped(e.expr, tree)
         /\ LET parent == get(e.expr, tree) IN
            /\ parent # None
            /\ IF e.tag = "Child" THEN IsTable(parent) ELSE IsArray(parent)

\* the places of the entries and elements of a tree, at any depth
RECURSIVE PlacesIn(_)
PlacesIn(tree) ==
    IF IsTable(tree)
    THEN UNION {{<<KeyStep(k)>> \o p : p \in {<<>>} \cup PlacesIn(tree.map[k])} :
                   k \in DOMAIN tree.map}
    ELSE IF IsArray(tree)
    THEN UNION {{<<IndexStep(j - 1)>> \o p :
                    p \in {<<>>} \cup PlacesIn(tree.array[j])} :
                   j \in 1..Len(tree.array)}
    ELSE {}

\* place p is place q or a place on the way to it
OnTheWay(p, q) == Len(p) <= Len(q) /\ SubSeq(q, 1, Len(p)) = p

\* the places of the tree before the set that are neither on the way to
\* the place set nor below it
Beside ==
    {q \in PlacesIn(pre) :
        ~OnTheWay(q, PlaceOf(expr)) /\ ~OnTheWay(PlaceOf(expr), q)}

\* C28: where every node on the way of path P has the shape P needs and
\* no index of P is negative, set(P, root, v) with v no table puts v at P
\* and leaves every entry and element beside P at its place with its
\* value.
C28_SetFrame ==
    (/\ ppc = "set"
     /\ ~IsTable(val)
     /\ NonNegative(expr)
     /\ Shaped(expr, pre)) =>
        /\ PlaceOf(expr) \in PlacesIn(root)
        /\ Deref(root, PlaceOf(expr)) = val
        /\ \A q \in Beside :
              q \in PlacesIn(root) /\ Deref(root, q) = Deref(pre, q)

\* an element is set past the end of an array of two, beside an entry b
\* of the root: the two elements and b are as they were
C28_Witness ==
    /\ ppc = "set"
    /\ ~IsTable(val)
    /\ val # Nil
    /\ expr = Subscript(Identifier("a"), 3)
    /\ Shaped(expr, pre)
    /\ Len(pre.map["a"].array) = 2
    /\ <<KeyStep("b")>> \in Beside
    /\ <<KeyStep("a"), IndexStep(1)>> \in Beside
    /\ Deref(root, <<KeyStep("a"), IndexStep(1)>>) = pre.map["a"].array[2]
    /\ Deref(root, <<KeyStep("a"), IndexStep(3)>>) = val

(***************************************************************************)
(* Claims about the unreachable!() branches (SpecReach).                   *)
(***************************************************************************)
\* C29: no call of get_mut_forcibly or of set, on any root, reaches one of
\* their unreachable!() branches, and the value collect merges the
\* variables into is a table after every merge, so that collect returns
\* its map and does not reach its unreachable!() branch either.
C29_NoUnreachable ==
    /\ ppc = "forced" => ~get_mut_forcibly_unreachable(expr, pre)
    /\ ppc = "set" => ~set_unreachable(expr, pre, val)
    /\ epc = "collecting" => IsTable(envTable)
    /\ epc = "done" => collected.ok

\* a table is set at a key below an index, on a root whose entry is
\* neither an array nor absent: the entry was made an array, its element a
\* table, and the table set was merged into it
C29_Witness ==
    /\ ppc = "set"
    /\ expr.tag = "Child"
    /\ expr.expr.tag = "Subscript"
    /\ IsTable(val)
    /\ val.map # EmptyMap
    /\ LET entry == get(expr.expr.expr, pre) IN
       entry # None /\ entry # Nil /\ ~IsArray(entry)
    /\ IsArray(get(expr.expr.expr, root))
    /\ IsTable(get(expr, root))

(***************************************************************************)
(* Claims about the visiting order of collect (SpecEnv).                   *)
(***************************************************************************)
\* the table collected from the variables visited in one order, which
\* CHOOSE fixes for every set
RECURSIVE CollectFrom(_, _)
CollectFrom(m, variables) ==
    IF variables = {} THEN m
    ELSE LET v == CHOOSE x \in variables : TRUE IN
         CollectFrom(collector(environment, m, v.key, v.value),
                     variables \ {v})

\* the paths of the variables do not clash
NoClash ==
    LET ps == {PairOf(v) : v \in envVars} IN
    \A h \in Heads(ps) : Compatible(Under(ps, h))

====
